---- MODULE Spec2Model ----
(***************************************************************************)
(* A model of the CMS open-data ttbar analysis pipeline                    *)
(* (analyses/cms-open-data-ttbar): the permutation table, get_features,    *)
(* and TtbarAnalysis.process run on one chunk of events.                   *)
(*                                                                         *)
(* Numbers.  Transverse momenta and masses of the input objects are whole  *)
(* GeV; phi is a whole multiple of pi and eta is 0, so that every          *)
(* four-vector has integer Cartesian components; b-tag and qgl scores are  *)
(* tenths; multiplicative factors (pt variations) are hundredths.  A       *)
(* quantity the code obtains through a square root (a Delta-R, the mass or *)
(* pt of a four-vector sum) is carried as Root(n), standing for sqrt(n).   *)
(* A scaled sum of pt is carried as Lin(c), standing for c / 100 GeV.      *)
(***************************************************************************)
EXTENDS Integers, Sequences, FiniteSets, TLC

\* ------------------------------------------------------------------ bounds
\* largest number of events in one chunk handed to process / get_features
MaxEvents == 3

\* ------------------------------------------------------- program constants
MAX_N_JETS == 6
\* B_TAG_THRESHOLD = 0.5, in tenths
B_TAG_THRESHOLD == 5
\* pT > 25 GeV for leptons & jets
PT_CUT == 25
\* events["pt_nominal"] = 1.0 and events["pt_scale_up"] = 1.03, in hundredths
PT_NOMINAL == 100
PT_SCALE_UP == 103
\* number of feature columns
N_FEATURES == 28

\* ------------------------------------------------------------ sequences
Range(s) == {s[i] : i \in 1..Len(s)}

RECURSIVE SumSeq(_)
SumSeq(s) == IF Len(s) = 0 THEN 0 ELSE Head(s) + SumSeq(Tail(s))

\* number of TRUE entries (ak.sum of a boolean array) / number of entries
RECURSIVE CountTrue(_)
CountTrue(s) == IF Len(s) = 0 THEN 0
                ELSE (IF Head(s) THEN 1 ELSE 0) + CountTrue(Tail(s))

\* boolean-mask indexing  array[mask]
RECURSIVE Mask(_, _)
Mask(s, m) == IF Len(s) = 0 THEN <<>>
              ELSE (IF Head(m) THEN <<Head(s)>> ELSE <<>>) \o Mask(Tail(s), Tail(m))

\* ak.flatten(axis=1) of a list of lists
RECURSIVE Flatten(_)
Flatten(ss) == IF Len(ss) = 0 THEN <<>> ELSE Head(ss) \o Flatten(Tail(ss))

Abs(x) == IF x < 0 THEN -x ELSE x

\* -------------------------------------------------------------- numbers
Lin(c) == [root |-> FALSE, num |-> c]
Root(n) == [root |-> TRUE, num |-> n]

\* ------------------------------------------------------- physics objects
\* a jet of the input file (events.Jet): pt, eta, phi, mass, btagCSVV2, qgl
J(pt, mass, phi, btag, qgl) ==
    [pt |-> pt, eta |-> 0, phi |-> phi, mass |-> mass, btagCSVV2 |-> btag, qgl |-> qgl]
\* a lepton of the input file (events.Electron / events.Muon)
L(pt, phi) == [pt |-> pt, eta |-> 0, phi |-> phi, mass |-> 0]

Ev(n, el, mu, jets) == [event |-> n, Electron |-> el, Muon |-> mu, Jet |-> jets]

\* jets used to build the sample files; (pt, mass) are chosen with
\* pt^2 + mass^2 a perfect square
JA == J(30, 16, 0, 9, 3)
JB == J(40, 9, 1, 8, 7)
JC == J(30, 0, -1, 2, 5)
JD == J(40, 30, 0, 1, 9)
JE == J(35, 12, 1, 3, 2)
JF == J(60, 11, -1, 4, 6)
JG == J(45, 28, 0, 0, 4)
\* scores exactly at the b-tag threshold
JT == J(30, 16, 1, 5, 5)
JU == J(40, 9, -1, 5, 1)
\* pt exactly at / just below the cut
JP == J(25, 0, 1, 2, 8)
JQ == J(24, 7, 0, 9, 2)
JR == J(24, 10, -1, 1, 6)

E30 == L(30, 1)
E25 == L(25, 0)
M40 == L(40, -1)
M20 == L(20, 0)

\* the events of a sample file, in file order
SampleEvents ==
    << Ev(1,  <<E30>>, <<>>,    <<JA, JC, JD, JE>>),            \* 4 jets, 1 tag
       Ev(2,  <<>>,    <<M40>>, <<JA, JB, JC, JD, JE>>),        \* 5 jets, 2 tags
       Ev(3,  <<E30>>, <<>>,    <<JB, JC, JA, JF>>),            \* 4 jets, 2 tags
       Ev(4,  <<>>,    <<M40>>, <<JC, JD, JE, JB>>),            \* 4 jets, 1 tag
       Ev(5,  <<M20, E30>>, <<>>, <<JT, JU, JC, JD>>),          \* 2 jets at 0.5
       Ev(6,  <<E30>>, <<>>,    <<JT, JC, JA, JD>>),            \* 0.5 and 0.9
       Ev(7,  <<E30>>, <<>>,    <<JA, JB, JC>>),                \* 3 jets
       Ev(8,  <<E30>>, <<M40>>, <<JA, JB, JC, JD>>),            \* 2 leptons
       Ev(9,  <<E25>>, <<M20>>, <<JA, JB, JC, JD>>),            \* no lepton
       Ev(10, <<>>,    <<M40>>, <<JA, JP, JC, JD>>),            \* a jet at 25
       Ev(11, <<E30>>, <<>>,    <<JQ, JC, JD, JE, JF>>),        \* tag below cut
       Ev(12, <<E30>>, <<>>,    <<JC, JD, JE, JG>>),            \* no tag
       Ev(13, <<>>,    <<M40>>, <<JR, JB, JA, JC, JP>>),        \* 3..5 jets
       Ev(17, <<E30>>, <<M20>>, <<JU, JB, JA, JP, JC>>),        \* 0.5, 2 above
       Ev(15, <<>>,    <<M40>>, <<JT, JD, JE, JF, JC>>),        \* 1 tag at 0.5
       Ev(18, <<E30>>, <<>>,    <<JB, JC, JD, JE, JF, JG, JA>>) >> \* 7 jets

\* ------------------------------------------------------------ four-vectors
\* cos, sin of a whole multiple of pi; sinh at 0
Cos(phi) == IF phi % 2 = 0 THEN 1 ELSE -1
Sin(phi) == 0
Sinh(eta) == CASE eta = 0 -> 0

\* E of a (pt, eta, phi, mass) object: sqrt(pt^2 cosh(eta)^2 + mass^2), eta = 0
Energy(o) == CHOOSE en \in o.pt..(o.pt + o.mass) : en * en = o.pt * o.pt + o.mass * o.mass

\* Cartesian components of a (pt, eta, phi, mass) object
P4(o) == [px |-> o.pt * Cos(o.phi), py |-> o.pt * Sin(o.phi),
          pz |-> o.pt * Sinh(o.eta), E |-> Energy(o)]

\* four-vector sum  a + b
Add(a, b) == [px |-> a.px + b.px, py |-> a.py + b.py, pz |-> a.pz + b.pz, E |-> a.E + b.E]

\* (four-vector).mass and (four-vector).pt
MassOf(p) == Root(p.E * p.E - p.px * p.px - p.py * p.py - p.pz * p.pz)
PtOf(p) == Root(p.px * p.px + p.py * p.py)

\* ------------------------------------------------------- permutation table
\* the i-th (0-based) 4-tuple over 0..n-1 in the order of the cartesian product
Digits(i, n) == << (i \div (n * n * n)) % n, (i \div (n * n)) % n, (i \div n) % n, i % n >>

PairwiseDistinct(t) == \A a, b \in 1..Len(t) : a # b => t[a] # t[b]

\* utils.get_permutations_dict, one jet count: every ordered assignment of four
\* distinct jets to the roles (W jet 1, W jet 2, hadronic-top b, leptonic-top b)
PermutationList(n) ==
    SelectSeq([i \in 1..(n * n * n * n) |-> Digits(i - 1, n)], PairwiseDistinct)

RECURSIVE PermutationTable(_, _)
PermutationTable(n, maxn) ==
    IF n > maxn THEN <<>>
    ELSE (n :> PermutationList(n)) @@ PermutationTable(n + 1, maxn)

\* utils.get_permutations_dict(MAX_N_JETS): a table with the keys 4..MAX_N_JETS
get_permutations_dict(maxn) == PermutationTable(4, maxn)

permutations_dict == get_permutations_dict(MAX_N_JETS)

MaxOf(S) == CHOOSE m \in S : \A x \in S : x <= m

\* ------------------------------------------------------------ get_features
\* features.astype(np.float32) on an integer carrier: exact up to 2^24, then
\* rounded to the nearest representable value (ties to even); Root values are
\* carried unrounded
Float32Int(x) ==
    IF Abs(x) <= 16777216 THEN x
    ELSE LET q == Abs(x) \div 2
             r == Abs(x) % 2
             up == IF r = 1 /\ q % 2 = 1 THEN 1 ELSE 0
         IN (IF x < 0 THEN -1 ELSE 1) * 2 * (q + up)

\* the columns holding Root values
RootColumns == {0, 1, 2, 3, 8, 9, 10, 11}

Float32(k, x) == IF k \in RootColumns THEN x ELSE Float32Int(x)

\* variants of JetCounts: every event given the largest key; no event clamped
JetCounts_AlwaysMax(jets, pdict) == [e \in 1..Len(jets) |-> MaxOf(DOMAIN pdict)]
JetCounts_Unclamped(jets, pdict) == [e \in 1..Len(jets) |-> Len(jets[e])]

\* njet = ak.num(jets); njet[njet > max(keys)] = max(keys)
JetCounts(jets, pdict) ==
    [e \in 1..Len(jets) |->
        IF Len(jets[e]) > MaxOf(DOMAIN pdict) THEN MaxOf(DOMAIN pdict) ELSE Len(jets[e])]

\* variant of Leptons: the flat lepton array in the opposite event order
Leptons_Reversed(electrons, muons) ==
    LET l == Flatten([e \in 1..Len(electrons) |-> electrons[e] \o muons[e]])
    IN [i \in 1..Len(l) |-> l[Len(l) + 1 - i]]

\* leptons = ak.flatten(ak.concatenate((electrons, muons), axis=1), axis=-1)
Leptons(electrons, muons) ==
    Flatten([e \in 1..Len(electrons) |-> electrons[e] \o muons[e]])

\* jets[perms[..., i]] for one event and one permutation (i is 0-based)
RoleJet(jets_e, perm, i) == jets_e[perm[i + 1] + 1]

\* variant of DeltaPhi: the difference wrapped into [0, pi] (phi in units of pi)
DeltaPhi_Wrapped(a, b) ==
    LET d == Abs(a.phi - b.phi) IN IF d > 1 THEN 2 - d ELSE d

DeltaR(a, b) == Root((a.eta - b.eta) * (a.eta - b.eta) + (a.phi - b.phi) * (a.phi - b.phi))
DeltaPhi(a, b) == Abs(a.phi - b.phi)

\* the value of feature column k (0-based) for one lepton, one event's jets
\* and one permutation
FeatureValue(k, lep, jets_e, perm) ==
    LET j0 == RoleJet(jets_e, perm, 0)
        j1 == RoleJet(jets_e, perm, 1)
        j2 == RoleJet(jets_e, perm, 2)
        j3 == RoleJet(jets_e, perm, 3)
        jr == RoleJet(jets_e, perm, k % 4)
    IN CASE k = 0 -> DeltaR(lep, j3)
         [] k = 1 -> DeltaR(j0, j1)
         [] k = 2 -> DeltaR(j0, j2)
         [] k = 3 -> DeltaR(j1, j2)
         [] k = 4 -> DeltaPhi(lep, j3)
         [] k = 5 -> DeltaPhi(j0, j1)
         [] k = 6 -> DeltaPhi(j0, j2)
         [] k = 7 -> DeltaPhi(j1, j2)
         [] k = 8 -> MassOf(Add(P4(lep), P4(j3)))
         [] k = 9 -> MassOf(Add(P4(j0), P4(j1)))
         [] k = 10 -> MassOf(Add(Add(P4(j0), P4(j1)), P4(j2)))
         [] k = 11 -> PtOf(Add(Add(P4(j0), P4(j1)), P4(j2)))
         [] k \in 12..15 -> jr.pt
         [] k \in 16..19 -> jr.mass
         [] k \in 20..23 -> jr.btagCSVV2
         [] k \in 24..27 -> jr.qgl

\* one assignment  features[:, k] = ak.flatten(<expression over leptons, jets, perms>):
\* the flat lepton array is broadcast against the events, leptons[e] with event e
FeatureColumn(k, leptons, jets, perms) ==
    Flatten([e \in 1..Len(jets) |->
                [p \in 1..Len(perms[e]) |-> FeatureValue(k, leptons[e], jets[e], perms[e][p])]])

\* the columns k, k+1, ..., N_FEATURES-1, in the order the code assigns them
RECURSIVE FeatureColumns(_, _, _, _)
FeatureColumns(k, leptons, jets, perms) ==
    IF k >= N_FEATURES THEN <<>>
    ELSE <<FeatureColumn(k, leptons, jets, perms)>> \o FeatureColumns(k + 1, leptons, jets, perms)

\* perms = ak.Array([permutations_dict[n] for n in njet])
Perms(jets, pdict) == [e \in 1..Len(jets) |-> pdict[JetCounts(jets, pdict)[e]]]

\* variant of FeatureRows: as many rows as the first event has permutations
FeatureRows_FirstEvent(perm_counts) == perm_counts[1]

\* the number of rows of  features = np.zeros((sum(perm_counts), 28))
FeatureRows(perm_counts) == SumSeq(perm_counts)

\* perm_counts = ak.num(perms)
PermCounts(perms) == [e \in 1..Len(perms) |-> Len(perms[e])]

NoFeatures == [raised |-> "none", features |-> <<>>, perm_counts |-> <<>>]

\* get_features(jets, electrons, muons, permutations_dict): the feature matrix
\* (a sequence of rows of N_FEATURES values) and perm_counts, or the exception
\* that leaves the function
get_features(jets, electrons, muons, pdict) ==
    LET njet == JetCounts(jets, pdict)
        leptons == Leptons(electrons, muons)
    IN IF \E e \in 1..Len(jets) : njet[e] \notin DOMAIN pdict
       THEN [NoFeatures EXCEPT !.raised = "KeyError"]
       ELSE IF Len(jets) = 0
       THEN NoFeatures
       ELSE IF Len(leptons) # Len(jets)
       THEN [NoFeatures EXCEPT !.raised = "ValueError"]
       ELSE LET perms == Perms(jets, pdict)
                perm_counts == PermCounts(perms)
                nrows == FeatureRows(perm_counts)
                cols == FeatureColumns(0, leptons, jets, perms)
            IN [raised |-> "none",
                features |-> [r \in 1..nrows |->
                                 [c \in 1..N_FEATURES |-> Float32(c - 1, cols[c][r])] \o <<>>] \o <<>>,
                perm_counts |-> perm_counts]

\* --------------------------------------------------- long (row-level) arrays
\* 1-based positions of the TRUE entries of a boolean array
TruePositions(m) == SelectSeq([i \in 1..Len(m) |-> i], LAMBDA i : m[i])

\* boolean-mask indexing of a row-level array  array[mask]
MaskRows(s, m) == LET pos == TruePositions(m) IN [k \in 1..Len(pos) |-> s[pos[k]]]

\* variant of Invert: the mask handed back as it is
Invert_Same(m) == m

\* np.invert(mask)
Invert(m) == [i \in 1..Len(m) |-> ~m[i]]

\* running number of TRUE entries of m[lo..hi], started at base
RECURSIVE PrefixCounts(_, _, _, _)
PrefixCounts(m, lo, hi, base) ==
    IF lo > hi THEN <<>>
    ELSE IF lo = hi THEN <<base + (IF m[lo] THEN 1 ELSE 0)>>
    ELSE LET mid == (lo + hi) \div 2
             left == PrefixCounts(m, lo, mid, base)
         IN left \o PrefixCounts(m, mid + 1, hi, left[Len(left)])

\* array[mask] = values  (the k-th TRUE position receives values[k])
MaskAssign(a, m, v) ==
    LET rank == PrefixCounts(m, 1, Len(m), 0)
    IN [i \in 1..Len(a) |-> IF m[i] THEN v[rank[i]] ELSE a[i]]

\* np.repeat(values, counts)
Repeat(values, counts) ==
    Flatten([e \in 1..Len(values) |-> [p \in 1..counts[e] |-> values[e]]])

\* ak.unflatten(array, counts)
Unflatten(a, counts) ==
    [e \in 1..Len(counts) |->
        SubSeq(a, SumSeq(SubSeq(counts, 1, e - 1)) + 1, SumSeq(SubSeq(counts, 1, e)))]

\* variant of ArgMax: the last index holding the maximum
ArgMax_Last(r) ==
    LET m == MaxOf(Range(r))
    IN (CHOOSE i \in 1..Len(r) : r[i] = m /\ \A j \in (i + 1)..Len(r) : r[j] # m) - 1

\* argmax of a non-empty list of integers: the first index (0-based) holding the maximum
ArgMax(r) ==
    LET m == MaxOf(Range(r))
    IN (CHOOSE i \in 1..Len(r) : r[i] = m /\ \A j \in 1..(i - 1) : r[j] # m) - 1

\* ------------------------------------------------------------- classifier
\* PowerTransformer(method='yeo-johnson', standardize=True).fit_transform(X): one
\* strictly increasing map per column, fitted on the rows of X; it refuses an X
\* with no rows.  The fitted map is taken to be the shift by the column minimum.
NumOf(k, x) == IF (k - 1) \in RootColumns THEN x.num ELSE x

MinOf(S) == CHOOSE m \in S : \A x \in S : m <= x

RECURSIVE ColumnMinima(_, _)
ColumnMinima(X, k) ==
    IF k > N_FEATURES THEN <<>>
    ELSE << MinOf({NumOf(k, X[r][k]) : r \in 1..Len(X)}) >> \o ColumnMinima(X, k + 1)

fit_transform(X) ==
    LET mins == ColumnMinima(X, 1)
    IN [r \in 1..Len(X) |-> [k \in 1..N_FEATURES |-> NumOf(k, X[r][k]) - mins[k]]]

\* the loaded classifiers: predict_proba(X)[:, 1] of one transformed row, in
\* thousandths
Models == {"bdt_btag", "bdt_flat", "bdt_dphi"}

PredictRow(model, row) ==
    CASE model = "bdt_btag" -> 100 + 50 * (row[23] + row[24])
      [] model = "bdt_flat" -> 500
      [] model = "bdt_dphi" -> 900 - 100 * row[6] - 10 * row[21]

predict_proba(model, X) == [r \in 1..Len(X) |-> PredictRow(model, X[r])]

\* forces a lazily defined sequence into a tuple
Eager(s) == s \o <<>>

\* --------------------------------------------------------- event selection
\* variant of PtVariations: the three pt variations for every chunk
PtVariations_All(variation) == <<"pt_nominal", "pt_scale_up", "pt_res_up">>

\* pt_variations of process, from the chunk's variation
PtVariations(variation) ==
    IF variation = "nominal" THEN <<"pt_nominal", "pt_scale_up", "pt_res_up">>
    ELSE <<"pt_nominal">>

\* events[pt_var] broadcast against events.Jet: one factor per jet (hundredths)
PtVarFactors(evs, res, pt_var) ==
    [e \in 1..Len(evs) |->
        [j \in 1..Len(evs[e].Jet) |->
            CASE pt_var = "pt_nominal" -> PT_NOMINAL
              [] pt_var = "pt_scale_up" -> PT_SCALE_UP
              [] pt_var = "pt_res_up" -> res[e][j]]]

\* (events.Electron.pt > 25), (events.Muon.pt > 25)
LeptonCut(lep) == lep.pt > PT_CUT
SelectLeptons(leps) == SelectSeq(leps, LeptonCut)

\* (events.Jet.pt * events[pt_var]) > 25, for one jet and its factor
JetCut(pt, factor) == pt * factor > PT_CUT * 100

\* jet_filter of one event
JetFilter(jets, factors) == [j \in 1..Len(jets) |-> JetCut(jets[j].pt, factors[j])]

\* ak.sum(jets.btagCSVV2 >= B_TAG_THRESHOLD, axis=1), one event
NTagged(jets) == CountTrue([j \in 1..Len(jets) |-> jets[j].btagCSVV2 >= B_TAG_THRESHOLD])
\* ak.sum(jets.btagCSVV2 > B_TAG_THRESHOLD, axis=1), one event
NTaggedAbove(jets) == CountTrue([j \in 1..Len(jets) |-> jets[j].btagCSVV2 > B_TAG_THRESHOLD])

\* variant of FourJets: three jets suffice
FourJets_ThreeJets(njet) == njet >= 3

\* variant of SingleLepton: one lepton or more
SingleLepton_AtLeastOne(nelectron, nmuon) == nelectron + nmuon >= 1

\* the three requirements of event_filters
SingleLepton(nelectron, nmuon) == nelectron + nmuon = 1
FourJets(njet) == njet >= 4
OneBTag(jets) == NTagged(jets) >= 1

\* event_filters of one event, from its selected objects
EventFilter(sel_el, sel_mu, sel_jets) ==
    SingleLepton(Len(sel_el), Len(sel_mu)) /\ FourJets(Len(sel_jets)) /\ OneBTag(sel_jets)

\* the Where clauses of get_query, for one event of the source: one lepton
\* with pt > 25, four jets or more with pt > 25, a jet with b-tag >= 0.5 and
\* pt > 25
QueryAccepts(ev) ==
    /\ Len(SelectSeq(ev.Electron, LAMBDA l : l.pt > PT_CUT))
          + Len(SelectSeq(ev.Muon, LAMBDA l : l.pt > PT_CUT)) = 1
    /\ Len(SelectSeq(ev.Jet, LAMBDA j : j.pt > PT_CUT)) >= 4
    /\ Len(SelectSeq(ev.Jet, LAMBDA j : j.btagCSVV2 >= B_TAG_THRESHOLD /\ j.pt > PT_CUT)) >= 1

\* the events of the source that get_query delivers
get_query(source) == SelectSeq(source, QueryAccepts)

\* the event selection of one pass of the pt_var loop: the masks, and the
\* selected objects after  x = x[event_filters]
EventSelection(evs, res, pt_var) ==
    LET fac == PtVarFactors(evs, res, pt_var)
        jet_filter == [e \in 1..Len(evs) |-> JetFilter(evs[e].Jet, fac[e])]
        sel_el == [e \in 1..Len(evs) |-> SelectLeptons(evs[e].Electron)]
        sel_mu == [e \in 1..Len(evs) |-> SelectLeptons(evs[e].Muon)]
        sel_jets == [e \in 1..Len(evs) |-> Mask(evs[e].Jet, jet_filter[e])]
        sel_fac == [e \in 1..Len(evs) |-> Mask(fac[e], jet_filter[e])]
        event_filters == [e \in 1..Len(evs) |-> EventFilter(sel_el[e], sel_mu[e], sel_jets[e])]
    IN [pt_var |-> pt_var,
        jet_filter |-> jet_filter,
        event_filters |-> event_filters,
        selected_electrons |-> Mask(sel_el, event_filters),
        selected_muons |-> Mask(sel_mu, event_filters),
        selected_jets |-> Mask(sel_jets, event_filters),
        pt_var_modifier |-> Mask(sel_fac, event_filters),
        even |-> Mask([e \in 1..Len(evs) |-> evs[e].event % 2 = 0], event_filters)]

\* ----------------------------------------------------------------- regions
Regions == <<"4j1b", "4j2b">>

\* variant of Region4j1bFilter: one tag or more
Region4j1bFilter_AtLeastOne(jets) == NTagged(jets) >= 1

\* region_filter of one selected event
Region4j1bFilter(jets) == NTagged(jets) = 1
\* variant of Region4j2bFilter: no tag asked for
Region4j2bFilter_Any(jets) == NTaggedAbove(jets) >= 0

Region4j2bFilter(jets) == NTaggedAbove(jets) >= 2

RegionFilter(region, selected_jets) ==
    [e \in 1..Len(selected_jets) |->
        IF region = "4j1b" THEN Region4j1bFilter(selected_jets[e])
        ELSE Region4j2bFilter(selected_jets[e])]

\* variant of ScalarSum: the pt variation not applied
ScalarSum_Unscaled(jets, factors) == Lin(SumSeq([j \in 1..Len(jets) |-> jets[j].pt * PT_NOMINAL]))

\* HT of one event: ak.sum(selected_jets_region.pt * pt_var_modifier, axis=-1)
ScalarSum(jets, factors) == Lin(SumSeq([j \in 1..Len(jets) |-> jets[j].pt * factors[j]]))

\* ak.combinations(range(n), 3): index triples i < j < k in lexicographic order
Combinations3(n) ==
    SelectSeq([i \in 1..(n * n * n) |->
                  << (((i - 1) \div (n * n)) % n) + 1, (((i - 1) \div n) % n) + 1, ((i - 1) % n) + 1 >>],
              LAMBDA t : t[1] < t[2] /\ t[2] < t[3])

MaxBTag(jets, t) ==
    MaxOf({jets[t[1]].btagCSVV2, jets[t[2]].btagCSVV2, jets[t[3]].btagCSVV2})

TrijetP4(jets, t) == Add(Add(P4(jets[t[1]]), P4(jets[t[2]])), P4(jets[t[3]]))

\* the value standing for None in an observable array
Missing == Root(-1)

\* mass of the trijet candidate of largest pt among those with a b-tagged jet,
\* for one event; None when there is no candidate
TrijetMass(jets) ==
    LET cand == SelectSeq(Combinations3(Len(jets)),
                          LAMBDA t : MaxBTag(jets, t) > B_TAG_THRESHOLD)
        pts == [c \in 1..Len(cand) |-> PtOf(TrijetP4(jets, cand[c])).num]
    IN IF Len(cand) = 0 THEN Missing
       ELSE MassOf(TrijetP4(jets, cand[ArgMax(pts) + 1]))

\* ---------------------------------------------------------------- histogram
\* hist.Hist.new.Reg(num_bins, bin_low, bin_high) twice, StrCat region,
\* growing StrCat process and variation, Weight storage
num_bins == 25
bin_low == 50
bin_high == 550

\* index of a value on a regular axis: 0 underflow, 1..num_bins, num_bins+1 overflow
RegIndex(x) ==
    LET w == (bin_high - bin_low) \div num_bins
    IN IF x.root
       THEN IF x.num < bin_low * bin_low THEN 0
            ELSE IF x.num >= bin_high * bin_high THEN num_bins + 1
            ELSE CHOOSE i \in 1..num_bins :
                    /\ (bin_low + w * (i - 1)) * (bin_low + w * (i - 1)) <= x.num
                    /\ x.num < (bin_low + w * i) * (bin_low + w * i)
       ELSE IF x.num < bin_low * 100 THEN 0
            ELSE IF x.num >= bin_high * 100 THEN num_bins + 1
            ELSE ((x.num - bin_low * 100) \div (w * 100)) + 1

\* self.hist as built by __init__: no category on the growing axes, no entry
EmptyHist == [process |-> <<>>, variation |-> <<>>, bins |-> <<>>]

AddCategory(axis, c) == IF c \in Range(axis) THEN axis ELSE Append(axis, c)

\* Weight storage: each bin holds two doubles, the sum of weights and the sum
\* of squared weights.  A double is carried as m * 2^e with a mantissa of
\* MantissaBits bits; every sum and product is rounded to the nearest such
\* value, ties to even.
MantissaBits == 12

RECURSIVE Pow2(_)
Pow2(n) == IF n = 0 THEN 1 ELSE 2 * Pow2(n - 1)

RECURSIVE BitLength(_)
BitLength(n) == IF n = 0 THEN 0 ELSE 1 + BitLength(n \div 2)

\* n / 2^s rounded to the nearest integer, ties to even
RoundShift(n, s) ==
    LET d == Pow2(s)
        q == n \div d
        r == n % d
    IN IF 2 * r < d THEN q
       ELSE IF 2 * r > d THEN q + 1
       ELSE IF q % 2 = 0 THEN q ELSE q + 1

\* the double nearest to m * 2^e, in normal form
Normalize(m, e) ==
    IF m = 0 THEN [m |-> 0, e |-> 0]
    ELSE LET s == BitLength(m) - MantissaBits
         IN IF s <= 0 THEN [m |-> m * Pow2(0 - s), e |-> e + s]
            ELSE LET r == RoundShift(m, s)
                 IN IF r = Pow2(MantissaBits) THEN [m |-> r \div 2, e |-> e + s + 1]
                    ELSE [m |-> r, e |-> e + s]

\* a weight (in units of 1/10000) as a double
Double(n) == Normalize(n, 0)

\* a + b in double arithmetic
DoubleAdd(a, b) ==
    IF a.m = 0 THEN b
    ELSE IF b.m = 0 THEN a
    ELSE LET hi == IF a.e >= b.e THEN a ELSE b
             lo == IF a.e >= b.e THEN b ELSE a
             gap == hi.e - lo.e
         IN IF gap > MantissaBits + 1 THEN hi
            ELSE Normalize(hi.m * Pow2(gap) + lo.m, lo.e)

\* a * b in double arithmetic
DoubleMul(a, b) == Normalize(a.m * b.m, a.e + b.e)

\* one weighted entry added to the bin storage (sum of weights, sum of weights^2)
AddEntry(bins, key, w) ==
    LET x == Double(w)
    IN IF key \in DOMAIN bins
       THEN [bins EXCEPT ![key] = [value |-> DoubleAdd(@.value, x),
                                   variance |-> DoubleAdd(@.variance, DoubleMul(x, x))]]
       ELSE bins @@ (key :> [value |-> x, variance |-> DoubleMul(x, x)])

RECURSIVE FillEntries(_, _, _, _, _, _)
FillEntries(bins, obs, ml, cats, weights, i) ==
    IF i > Len(obs) THEN bins
    ELSE FillEntries(AddEntry(bins, <<RegIndex(obs[i]), RegIndex(ml[i])>> \o cats, weights[i]),
                     obs, ml, cats, weights, i + 1)

\* histogram.fill(observable=, ml_observable=, region=, process=, variation=, weight=):
\* a fill of empty arrays computes no index and grows no axis
Fill(h, obs, ml, region, process, variation, weights) ==
    IF Len(obs) = 0 THEN h
    ELSE [process |-> AddCategory(h.process, process),
          variation |-> AddCategory(h.variation, variation),
          bins |-> FillEntries(h.bins, obs, ml, <<region, process, variation>>, weights, 1)]

\* variant of MergeAxis: the categories of the right operand are dropped
MergeAxis_LeftOnly(a, b) == a

\* a growing category axis of left + right: the categories of left, then the new ones of right
MergeAxis(a, b) == a \o SelectSeq(b, LAMBDA c : c \notin Range(a))

\* left + right of two histograms, as the runner accumulates the "hist" outputs:
\* the growing axes are merged and the storage is added bin by bin
Merge(a, b) ==
    [process |-> MergeAxis(a.process, b.process),
     variation |-> MergeAxis(a.variation, b.variation),
     bins |-> [k \in (DOMAIN a.bins) \cup (DOMAIN b.bins) |->
                 IF k \notin DOMAIN b.bins THEN a.bins[k]
                 ELSE IF k \notin DOMAIN a.bins THEN b.bins[k]
                 ELSE [value |-> DoubleAdd(a.bins[k].value, b.bins[k].value),
                       variance |-> DoubleAdd(a.bins[k].variance, b.bins[k].variance)]]]

\* a scalar weight broadcast to n events
Broadcast(w, n) == [i \in 1..n |-> w]

\* ------------------------------------------------------------- systematics
\* weights are carried in units of 1/10000
WEIGHT_ONE == 100 * 100

\* variant of SystematicFields: "scale_var" registered for every process
SystematicFields_Always(process) == <<"scale_var">>

\* events.add_systematic("scale_var", ...) only for process "wjets"
SystematicFields(process) == IF process = "wjets" THEN <<"scale_var">> ELSE <<>>

\* flat_variation(ones)[:, direction]: 2.5% up / down
flat_variation(direction) == IF direction = "up" THEN 10250 ELSE 9750

\* btag_weight_variation(i_jet, jet_pt)[:, i_dir] for one event:
\* 1 +- 0.075 * (pt of the i-th jet) / 50
btag_weight_variation(i_jet, jet_pt, direction) ==
    IF direction = "up" THEN WEIGHT_ONE + 15 * jet_pt[i_jet + 1]
    ELSE WEIGHT_ONE - 15 * jet_pt[i_jet + 1]

Directions == <<"up", "down">>

\* the labels and weights of the fills of one region in one pt_var pass, in order
RegionFills(pt_var, variation, process, xsec_weight, jets_region) ==
    LET n == Len(jets_region)
        nominal == << [variation |-> variation, weight |-> Broadcast(xsec_weight * WEIGHT_ONE, n)] >>
        weight_based ==
            Flatten([f \in 1..Len(SystematicFields(process)) |->
                [d \in 1..2 |->
                    [variation |-> SystematicFields(process)[f] \o "_" \o Directions[d],
                     weight |-> Broadcast(xsec_weight * flat_variation(Directions[d]), n)]]])
        btag ==
            Flatten([i \in 1..4 |->
                [d \in 1..2 |->
                    [variation |-> "btag_var_" \o ToString(i - 1) \o "_" \o Directions[d],
                     weight |-> [e \in 1..n |->
                        xsec_weight * btag_weight_variation(i - 1,
                            [j \in 1..Len(jets_region[e]) |-> jets_region[e][j].pt], Directions[d])]]]])
    IN IF pt_var = "pt_nominal"
       THEN IF variation = "nominal" THEN nominal \o weight_based \o btag ELSE nominal
       ELSE IF variation = "nominal"
            THEN << [variation |-> pt_var, weight |-> Broadcast(xsec_weight * WEIGHT_ONE, n)] >>
            ELSE <<>>

RECURSIVE FillAll(_, _, _, _, _, _)
FillAll(h, fills, obs, ml, region, process) ==
    IF Len(fills) = 0 THEN h
    ELSE FillAll(Fill(h, obs, ml, region, process, Head(fills).variation, Head(fills).weight),
                 Tail(fills), obs, ml, region, process)

\* ------------------------------------------------------------------ inputs
\* the fileset: one file per process__variation, with its metadata
Files == {"ttbar__nominal", "wjets__nominal", "ttbar__ME_var", "data__nominal",
          "single_top_t_chan__nominal"}

lumi == 3378

Metadata(f) ==
    CASE f = "ttbar__nominal" -> [process |-> "ttbar", variation |-> "nominal", xsec |-> 1, nevts |-> 1689]
      [] f = "wjets__nominal" -> [process |-> "wjets", variation |-> "nominal", xsec |-> 3, nevts |-> 3378]
      [] f = "ttbar__ME_var" -> [process |-> "ttbar", variation |-> "ME_var", xsec |-> 1, nevts |-> 1126]
      [] f = "data__nominal" -> [process |-> "data", variation |-> "nominal", xsec |-> 0, nevts |-> 1]
      [] f = "single_top_t_chan__nominal" ->
            [process |-> "single_top_t_chan", variation |-> "nominal", xsec |-> 2, nevts |-> 3378]

Reverse(s) == [i \in 1..Len(s) |-> s[Len(s) + 1 - i]]
FirstHalf(s) == SubSeq(s, 1, Len(s) \div 2)
SecondHalf(s) == SubSeq(s, (Len(s) \div 2) + 1, Len(s))

\* the events of each file
FileEvents(f) ==
    CASE f = "ttbar__nominal" -> SampleEvents
      [] f = "wjets__nominal" -> Reverse(FirstHalf(SampleEvents))
      [] f = "ttbar__ME_var" -> Reverse(SecondHalf(SampleEvents))
      [] f = "data__nominal" -> SubSeq(SampleEvents, 9, 9) \o Reverse(SubSeq(SampleEvents, 1, 4))
                                   \o SubSeq(SampleEvents, 10, 13)
      [] f = "single_top_t_chan__nominal" -> Reverse(SubSeq(SampleEvents, 2, 3))
                                                \o SubSeq(SampleEvents, 10, 10)

\* the chunks of a file: up to MaxEvents consecutive events
Chunks(f) ==
    UNION {{SubSeq(FileEvents(f), start, start + n - 1) :
               start \in 1..(Len(FileEvents(f)) - n + 1)} : n \in 1..MaxEvents}

\* jet_pt_resolution draws one factor per jet (hundredths); the draws considered
ResolutionDraws ==
    { <<105, 95, 105, 110, 95, 105, 95>>,
      <<80, 105, 110, 95, 105, 110, 105>> }

\* events["pt_res_up"] for a chunk, from one draw
ResolutionOf(evs, draw) ==
    [e \in 1..Len(evs) |-> [j \in 1..Len(evs[e].Jet) |-> draw[((j + e - 2) % Len(draw)) + 1]]]

\* the (even, odd) classifiers a processor is constructed with
ModelPairs == {<<"bdt_btag", "bdt_flat">>, <<"bdt_dphi", "bdt_btag">>}

\* the batches handed directly to get_features: per event its jets and its lepton
FeatureInputs ==
    { [jets |-> <<JA, JC, JD, JE>>, electrons |-> <<E30>>, muons |-> <<>>],
      [jets |-> <<JB, JT, JF, JA>>, electrons |-> <<>>, muons |-> <<M40>>],
      [jets |-> <<JA, JB, JC, JD, JE>>, electrons |-> <<>>, muons |-> <<M40>>],
      [jets |-> <<JG, JF, JE, JD, JC, JB>>, electrons |-> <<E30>>, muons |-> <<>>],
      [jets |-> <<JB, JC, JD, JE, JF, JG, JA>>, electrons |-> <<E30>>, muons |-> <<>>],
      [jets |-> <<JA, JB, JC>>, electrons |-> <<>>, muons |-> <<M40>>],
      [jets |-> <<JD, JE>>, electrons |-> <<E30>>, muons |-> <<>>] }

\* largest number of events in a batch handed directly to get_features
MaxBatch == 2

FeatureBatches ==
    UNION {[1..n -> FeatureInputs] : n \in 1..MaxBatch}

\* ------------------------------------------------------------------- state
VARIABLES
    pc,                  \* where the call is: "call", "select", "4j1b", "4j2b",
                         \* "return", "done", "raised"; "features" / "returned"
                         \* for a direct call of get_features
    events,              \* the chunk passed to process
    metadata,            \* events.metadata
    xgboost_model_even,  \* self.xgboost_model_even
    xgboost_model_odd,   \* self.xgboost_model_odd
    self_hist,           \* self.hist
    histogram,           \* the local histogram of process
    pt_res_up,           \* events["pt_res_up"]
    pt_var_i,            \* position of the pt_var loop in pt_variations
    sel,                 \* the locals of the event selection of the current pass
    reg,                 \* the locals of the region last processed
    ml,                  \* features, perm_counts, results, which_combination
    exception,           \* the exception that left the call, or "none"
    output,              \* the value process returned
    gf_args,             \* arguments of a direct call of get_features
    gf_result,           \* what that call returned or raised
    disable_processing,  \* self.disable_processing
    io_file_percent,     \* self.io_file_percent, in tenths
    use_triton,          \* self.use_triton
    branches_read,       \* the branches materialized by only_do_IO, in order
    fill_log,            \* the calls of histogram.fill of the current call, in order
    passes,              \* the region "4j2b" locals of the completed pt_var passes
    returned,            \* the "hist" entries of the outputs returned so far
    partial,             \* the partial sums held by the runner: which outputs, and their sum
    handed,              \* the chunks the runner has handed to process so far
    branch_ratios,       \* GetIOBranches: the loaded branch_ratios, in file order
    keys,                \* GetIOBranches: the branch names ordered by sortind
    values,              \* GetIOBranches: the ratios ordered by sortind
    io_branch_dict,      \* GetIOBranches: io_branch_dict, the list stored under each key
    percent_i,           \* GetIOBranches: position of the loop over desired_percents
    config               \* GetIOBranches: config["benchmarking"]["IO_BRANCHES"] as written

vars == <<pc, events, metadata, xgboost_model_even, xgboost_model_odd, self_hist,
          histogram, pt_res_up, pt_var_i, sel, reg, ml, exception, output,
          gf_args, gf_result, disable_processing, io_file_percent, use_triton,
          branches_read, fill_log, passes, returned, partial, handed,
          branch_ratios, keys, values, io_branch_dict, percent_i, config>>

\* the state of GetIOBranches.main
io_vars == <<branch_ratios, keys, values, io_branch_dict, percent_i, config>>

\* GetIOBranches.main has not run
NoBranchState ==
    /\ branch_ratios = <<>>
    /\ keys = <<>>
    /\ values = <<>>
    /\ io_branch_dict = <<>>
    /\ percent_i = 0
    /\ config = <<>>

\* the state of the runner
runner == <<partial, handed>>

\* the attributes of the processor that select its mode
attrs == <<disable_processing, io_file_percent, use_triton>>

NoLocals == <<>>

\* ------------------------------------------------------- process, one chunk
Init ==
    /\ pc = "call"
    /\ \E f \in Files :
          /\ events \in Chunks(f)
          /\ metadata = Metadata(f)
    /\ \E pair \in ModelPairs :
          /\ xgboost_model_even = pair[1]
          /\ xgboost_model_odd = pair[2]
    /\ self_hist = EmptyHist
    /\ histogram = EmptyHist
    /\ pt_res_up = <<>>
    /\ pt_var_i = 0
    /\ sel = NoLocals
    /\ reg = NoLocals
    /\ ml = NoLocals
    /\ exception = "none"
    /\ output = NoLocals
    /\ gf_args = NoLocals
    /\ gf_result = NoLocals
    /\ disable_processing = FALSE
    /\ io_file_percent = 27
    /\ use_triton = FALSE
    /\ branches_read = <<>>
    /\ fill_log = <<>>
    /\ passes = <<>>
    /\ returned = <<>>
    /\ partial = <<>>
    /\ handed = {}
    /\ NoBranchState

\* normalization for MC
XsecWeight(meta) ==
    IF meta.process # "data" THEN (meta.xsec * lumi) \div meta.nevts ELSE 1

pt_variations == PtVariations(metadata.variation)

\* variant of SelfHistAfter: histogram is self.hist itself, not a copy
SelfHistAfter_Aliased(own, filled) == filled

\* self.hist after fills of histogram = self.hist.copy(): the copy shares nothing
SelfHistAfter(own, filled) == own

\* the entries the fills of one region add to fill_log
LogFills(fills, obs, ml_obs, region, process) ==
    [i \in 1..Len(fills) |->
        [region |-> region, process |-> process, variation |-> fills[i].variation,
         observable |-> obs, ml_observable |-> ml_obs, weight |-> fills[i].weight]]

\* process up to the pt_var loop: histogram = self.hist.copy(), the metadata,
\* the triton client when use_triton, the systematics,
\* events["pt_res_up"] = jet_pt_resolution(events.Jet.pt).
\* self.model_vers, read for the triton client, is an attribute __init__ never sets.
ProcessBegin ==
    /\ pc = "call"
    /\ ~disable_processing
    /\ histogram' = self_hist
    /\ IF use_triton
       THEN /\ exception' = "AttributeError"
            /\ pc' = "raised"
            /\ UNCHANGED <<pt_res_up, pt_var_i>>
       ELSE /\ \E draw \in ResolutionDraws : pt_res_up' = ResolutionOf(events, draw)
            /\ pt_var_i' = 1
            /\ pc' = "select"
            /\ UNCHANGED exception
    /\ UNCHANGED <<events, metadata, xgboost_model_even, xgboost_model_odd, io_vars, self_hist,
                   sel, reg, ml, output, gf_args, gf_result,
                   attrs, branches_read, fill_log, passes, returned, runner>>

\* the event selection of one pt variation
SelectEvents ==
    /\ pc = "select"
    /\ sel' = EventSelection(events, pt_res_up, pt_variations[pt_var_i])
    /\ pc' = "4j1b"
    /\ UNCHANGED <<events, metadata, xgboost_model_even, xgboost_model_odd, io_vars, self_hist,
                   histogram, pt_res_up, pt_var_i, reg, ml, exception, output,
                   gf_args, gf_result, attrs, branches_read, fill_log, passes, returned, runner>>

\* the locals of region "4j1b"
Region4j1b(s) ==
    LET region_filter == RegionFilter("4j1b", s.selected_jets)
        selected_jets_region == Mask(s.selected_jets, region_filter)
        pt_var_modifier == Mask(s.pt_var_modifier, region_filter)
        observable == [e \in 1..Len(selected_jets_region) |->
                          ScalarSum(selected_jets_region[e], pt_var_modifier[e])]
    IN [region |-> "4j1b",
        region_filter |-> region_filter,
        selected_jets_region |-> selected_jets_region,
        even_region |-> Mask(s.even, region_filter),
        observable |-> observable,
        ML_observable |-> observable]

\* region "4j1b" of the current pass, and its histogram fills
FillRegion4j1b ==
    /\ pc = "4j1b"
    /\ LET r == Region4j1b(sel)
           fills == RegionFills(sel.pt_var, metadata.variation, metadata.process,
                                XsecWeight(metadata), r.selected_jets_region)
       IN /\ reg' = r
          /\ histogram' = FillAll(histogram, fills, r.observable, r.ML_observable,
                                  "4j1b", metadata.process)
          /\ fill_log' = fill_log \o LogFills(fills, r.observable, r.ML_observable,
                                               "4j1b", metadata.process)
    /\ self_hist' = SelfHistAfter(self_hist, histogram')
    /\ pc' = "4j2b"
    /\ UNCHANGED <<events, metadata, xgboost_model_even, xgboost_model_odd, io_vars,
                   pt_res_up, pt_var_i, sel, ml, exception, output, gf_args, gf_result,
                   attrs, branches_read, passes, returned, runner>>

\* the classifier scores of the feature rows, local models:
\*   results = np.zeros(features.shape[0])
\*   results[even_perm] = even.predict_proba(power.fit_transform(features[even_perm, :]))[:, 1]
\*   results[~even_perm] = odd.predict_proba(power.fit_transform(features[~even_perm, :]))[:, 1]
\* fit_transform raises ValueError on an array without rows
LocalInference(features, even_perm, model_even, model_odd) ==
    LET odd_perm == Eager(Invert(even_perm))
        x_even == Eager(MaskRows(features, even_perm))
        x_odd == Eager(MaskRows(features, odd_perm))
        zeros == [i \in 1..Len(features) |-> 0]
    IN IF Len(x_even) = 0 \/ Len(x_odd) = 0
       THEN [raised |-> "ValueError", results |-> <<>>]
       ELSE [raised |-> "none",
             results |-> Eager(MaskAssign(
                            Eager(MaskAssign(zeros, even_perm,
                                             predict_proba(model_even, fit_transform(x_even)))),
                            odd_perm, predict_proba(model_odd, fit_transform(x_odd))))]

\* which_combination = ak.argmax(ak.unflatten(results, perm_counts), axis=1)
WhichCombination(results, perm_counts) ==
    LET per_event == Unflatten(results, perm_counts)
    IN [e \in 1..Len(perm_counts) |-> ArgMax(per_event[e])]

\* ML_observable: column 10 of the chosen row of each event
ChosenFeature(features, perm_counts, which_combination) ==
    LET features_unflattened == Unflatten(features, perm_counts)
    IN [e \in 1..Len(perm_counts) |-> features_unflattened[e][which_combination[e] + 1][10 + 1]]

\* variant of SelectedJetsRegion: a jet whose pt the variation raises is
\* handed on with twice its pt and mass
SelectedJetsRegion_Scaled(jets, pt_var_modifier) ==
    [e \in 1..Len(jets) |->
        [j \in 1..Len(jets[e]) |->
            IF pt_var_modifier[e][j] > PT_NOMINAL
            THEN [jets[e][j] EXCEPT !.pt = 2 * @, !.mass = 2 * @]
            ELSE jets[e][j]]]

\* selected_jets_region = selected_jets[region_filter] in region "4j2b": the
\* jets as read from the file; the pt variation is not applied to them
SelectedJetsRegion(jets, pt_var_modifier) == jets

\* the locals of region "4j2b", or the exception raised on the way
Region4j2b(s, model_even, model_odd) ==
    LET region_filter == RegionFilter("4j2b", s.selected_jets)
        selected_jets_region == SelectedJetsRegion(Mask(s.selected_jets, region_filter),
                                                   Mask(s.pt_var_modifier, region_filter))
        selected_electrons_region == Mask(s.selected_electrons, region_filter)
        selected_muons_region == Mask(s.selected_muons, region_filter)
        even_region == Mask(s.even, region_filter)
        observable == [e \in 1..Len(selected_jets_region) |-> TrijetMass(selected_jets_region[e])]
        gf == get_features(selected_jets_region, selected_electrons_region,
                           selected_muons_region, permutations_dict)
        even_perm == Eager(Repeat(even_region, gf.perm_counts))
        inf == LocalInference(gf.features, even_perm, model_even, model_odd)
        which_combination == WhichCombination(inf.results, gf.perm_counts)
    IN IF gf.raised # "none" THEN [raised |-> gf.raised]
       ELSE IF inf.raised # "none" THEN [raised |-> inf.raised]
       ELSE [raised |-> "none",
             reg |-> [region |-> "4j2b",
                      region_filter |-> region_filter,
                      selected_jets_region |-> selected_jets_region,
                      even_region |-> even_region,
                      observable |-> observable,
                      ML_observable |-> ChosenFeature(gf.features, gf.perm_counts,
                                                      which_combination)],
             ml |-> [features |-> gf.features,
                     perm_counts |-> gf.perm_counts,
                     even_perm |-> even_perm,
                     results |-> inf.results,
                     which_combination |-> which_combination]]

\* region "4j2b" of the current pass and its histogram fills, then the next
\* pass of the pt_var loop; or the exception that ends the call
FillRegion4j2b ==
    /\ pc = "4j2b"
    /\ LET r == Region4j2b(sel, xgboost_model_even, xgboost_model_odd)
       IN IF r.raised # "none"
          THEN /\ exception' = r.raised
               /\ pc' = "raised"
               /\ UNCHANGED <<histogram, reg, ml, pt_var_i, fill_log, passes, self_hist>>
          ELSE LET fills == RegionFills(sel.pt_var, metadata.variation, metadata.process,
                                        XsecWeight(metadata), r.reg.selected_jets_region)
               IN /\ reg' = r.reg
                  /\ ml' = r.ml
                  /\ histogram' = FillAll(histogram, fills, r.reg.observable,
                                          r.reg.ML_observable, "4j2b", metadata.process)
                  /\ fill_log' = fill_log \o LogFills(fills, r.reg.observable,
                                                       r.reg.ML_observable, "4j2b",
                                                       metadata.process)
                  /\ passes' = Append(passes, [pt_var |-> sel.pt_var,
                                               jet_filter |-> sel.jet_filter,
                                               event_filters |-> sel.event_filters,
                                               reg |-> r.reg,
                                               ml |-> r.ml])
                  /\ self_hist' = SelfHistAfter(self_hist, histogram')
                  /\ IF pt_var_i < Len(pt_variations)
                     THEN pt_var_i' = pt_var_i + 1 /\ pc' = "select"
                     ELSE pt_var_i' = pt_var_i /\ pc' = "return"
                  /\ UNCHANGED exception
    /\ UNCHANGED <<events, metadata, xgboost_model_even, xgboost_model_odd, io_vars,
                   pt_res_up, sel, output, gf_args, gf_result,
                   attrs, branches_read, returned, runner>>

\* output = {...}; return output
ProcessReturn ==
    /\ pc = "return"
    /\ output' = [nevents |-> Len(events),
                  training_entries |-> Len(ml.features),
                  nevents_reduced |-> Len(reg.observable),
                  hist |-> histogram]
    /\ returned' = Append(returned, histogram)
    /\ partial' = Append(partial, [of |-> <<Len(returned) + 1>>, hist |-> histogram])
    /\ pc' = "done"
    /\ UNCHANGED <<events, metadata, xgboost_model_even, xgboost_model_odd, io_vars, self_hist,
                   histogram, pt_res_up, pt_var_i, sel, reg, ml, exception,
                   gf_args, gf_result, attrs, branches_read, fill_log, passes, handed>>

Next ==
    \/ ProcessBegin
    \/ SelectEvents
    \/ FillRegion4j1b
    \/ FillRegion4j2b
    \/ ProcessReturn

Spec == Init /\ [][Next]_vars

\* ------------------------------------------------ the runner and its modes
\* largest number of chunks handed to one processor
MaxCalls == 3

\* events of the files the runner reads: three with one tag whose observables
\* fall in one bin, and one of each parity with two tags
Run1 == Ev(1, <<E30>>, <<>>, <<JA, JC, JD, JE>>)
Run2 == Ev(2, <<>>, <<M40>>, <<JB, JC, JA, JD>>)
Run3 == Ev(3, <<E30>>, <<>>, <<JB, JC, JA, JF>>)
Run4 == Ev(4, <<>>, <<M40>>, <<JC, JD, JE, JB>>)
Run5 == Ev(5, <<E30>>, <<>>, <<JA, JC, JE, JG>>)

\* the chunks the runner hands out, each at most once: file and events
RunChunks ==
    { [file |-> "wjets__nominal", events |-> <<Run1, Run2, Run3>>],
      [file |-> "wjets__nominal", events |-> <<Run4, Run2, Run3>>],
      [file |-> "wjets__nominal", events |-> <<Run5, Run2, Run3>>],
      [file |-> "ttbar__ME_var", events |-> <<Run4, Run2, Run3>>] }

\* DISABLE_PROCESSING, IO_FILE_PERCENT (in tenths), USE_TRITON as handed to TtbarAnalysis
Modes ==
    { [disable_processing |-> FALSE, io_file_percent |-> 27, use_triton |-> FALSE],
      [disable_processing |-> FALSE, io_file_percent |-> 27, use_triton |-> TRUE] }
    \cup { [disable_processing |-> TRUE, io_file_percent |-> p, use_triton |-> FALSE] :
              p \in {10, 27, 30, 40, 100, 150, 250, 500, 600} }

\* standard AGC branches cover 2.7% of the data
Branches_2_7 ==
    << "Jet_pt", "Jet_eta", "Jet_phi", "Jet_btagCSVV2", "Jet_mass", "Muon_pt", "Electron_pt" >>

\* the branches added at 4%
Branches_4 ==
    << "Electron_phi", "Electron_eta", "Electron_mass", "Muon_phi", "Muon_eta", "Muon_mass",
       "Photon_pt", "Photon_eta", "Photon_mass", "Jet_jetId" >>

\* the branches added at 15%
Branches_15 ==
    << "Jet_nConstituents", "Jet_electronIdx1", "Jet_electronIdx2", "Jet_muonIdx1",
       "Jet_muonIdx2", "Jet_chHEF", "Jet_area", "Jet_puId", "Jet_qgl", "Jet_btagDeepB",
       "Jet_btagDeepCvB", "Jet_btagDeepCvL", "Jet_btagDeepFlavB", "Jet_btagDeepFlavCvB",
       "Jet_btagDeepFlavCvL", "Jet_btagDeepFlavQG", "Jet_chEmEF", "Jet_chFPV0EF", "Jet_muEF",
       "Jet_muonSubtrFactor", "Jet_neEmEF", "Jet_neHEF", "Jet_puIdDisc" >>

\* the branches added at 25%
Branches_25 ==
    << "GenPart_pt", "GenPart_eta", "GenPart_phi", "GenPart_mass", "GenPart_genPartIdxMother",
       "GenPart_pdgId", "GenPart_status", "GenPart_statusFlags" >>

\* the branches added at 50%
Branches_50 ==
    << "Jet_rawFactor", "Jet_bRegCorr", "Jet_bRegRes", "Jet_cRegCorr", "Jet_cRegRes",
       "Jet_nElectrons", "Jet_nMuons", "GenJet_pt", "GenJet_eta", "GenJet_phi", "GenJet_mass",
       "Tau_pt", "Tau_eta", "Tau_mass", "Tau_phi", "Muon_dxy", "Muon_dxyErr", "Muon_dxybs",
       "Muon_dz", "Muon_dzErr", "Electron_dxy", "Electron_dxyErr", "Electron_dz",
       "Electron_dzErr", "Electron_eInvMinusPInv", "Electron_energyErr", "Electron_hoe",
       "Electron_ip3d", "Electron_jetPtRelv2", "Electron_jetRelIso",
       "Electron_miniPFRelIso_all", "Electron_miniPFRelIso_chg", "Electron_mvaFall17V2Iso",
       "Electron_mvaFall17V2noIso", "Electron_pfRelIso03_all", "Electron_pfRelIso03_chg",
       "Electron_r9", "Electron_scEtOverPt", "Electron_sieie", "Electron_sip3d",
       "Electron_mvaTTH", "Electron_charge", "Electron_cutBased", "Electron_jetIdx",
       "Electron_pdgId", "Electron_photonIdx", "Electron_tightCharge" >>

\* branches_to_read as only_do_IO builds it
BranchesToRead(percent) ==
    (IF percent >= 27 THEN Branches_2_7 ELSE <<>>)
    \o (IF percent >= 40 THEN Branches_4 ELSE <<>>)
    \o (IF percent >= 150 THEN Branches_15 ELSE <<>>)
    \o (IF percent >= 250 THEN Branches_25 ELSE <<>>)
    \o (IF percent = 500 THEN Branches_50 ELSE <<>>)

SupportedPercent == {27, 40, 150, 250, 500}

\* variant of Materialized: the percentage is checked after the read loop
Materialized_CheckedLast(percent) == BranchesToRead(percent)

\* the branches only_do_IO materializes: none when the percentage is rejected,
\* the check standing before the read loop
Materialized(percent) ==
    IF percent \notin SupportedPercent THEN <<>> ELSE BranchesToRead(percent)

\* process with disable_processing: return self.only_do_IO(events)
OnlyDoIO ==
    /\ pc = "call"
    /\ disable_processing
    /\ branches_read' = branches_read \o Materialized(io_file_percent)
    /\ IF io_file_percent \notin SupportedPercent
       THEN /\ exception' = "NotImplementedError"
            /\ pc' = "raised"
            /\ UNCHANGED output
       ELSE /\ output' = [hist |-> <<>>]
            /\ pc' = "done"
            /\ UNCHANGED exception
    /\ UNCHANGED <<events, metadata, xgboost_model_even, xgboost_model_odd, io_vars, self_hist,
                   histogram, pt_res_up, pt_var_i, sel, reg, ml, gf_args, gf_result,
                   attrs, fill_log, passes, returned, runner>>

\* the runner hands the next chunk to the same processor; the locals of the
\* previous call are gone
NextChunk ==
    /\ pc \in {"done", "raised"}
    /\ Cardinality(handed) < MaxCalls
    /\ Len(partial) = Len(returned)
    /\ \E c \in RunChunks \ handed :
          /\ events' = c.events
          /\ metadata' = Metadata(c.file)
          /\ handed' = handed \cup {c}
    /\ pc' = "call"
    /\ histogram' = EmptyHist
    /\ pt_res_up' = <<>>
    /\ pt_var_i' = 0
    /\ sel' = NoLocals
    /\ reg' = NoLocals
    /\ ml' = NoLocals
    /\ exception' = "none"
    /\ output' = NoLocals
    /\ branches_read' = <<>>
    /\ fill_log' = <<>>
    /\ passes' = <<>>
    /\ UNCHANGED <<xgboost_model_even, xgboost_model_odd, io_vars, self_hist, gf_args, gf_result,
                   attrs, returned, partial>>

\* s without its elements at i and j
Without(s, i, j) ==
    LET keep == SelectSeq([k \in 1..Len(s) |-> k], LAMBDA k : k \notin {i, j})
    IN [n \in 1..Len(keep) |-> s[keep[n]]]

\* the runner adds two of the partial sums it holds, in either order
Accumulate ==
    /\ pc \in {"done", "raised"}
    /\ \E i, j \in 1..Len(partial) :
          /\ i # j
          /\ partial' = Without(partial, i, j)
                           \o << [of |-> partial[i].of \o partial[j].of,
                                  hist |-> Merge(partial[i].hist, partial[j].hist)] >>
    /\ UNCHANGED <<pc, events, metadata, xgboost_model_even, xgboost_model_odd, io_vars, self_hist,
                   histogram, pt_res_up, pt_var_i, sel, reg, ml, exception, output,
                   gf_args, gf_result, attrs, branches_read, fill_log, passes, returned,
                   handed>>

\* one processor instance, constructed in one of the modes, and its first chunk
InitRun ==
    /\ pc = "call"
    /\ \E c \in RunChunks :
          /\ events = c.events
          /\ metadata = Metadata(c.file)
          /\ handed = {c}
    /\ xgboost_model_even = "bdt_btag"
    /\ xgboost_model_odd = "bdt_flat"
    /\ \E mode \in Modes :
          /\ disable_processing = mode.disable_processing
          /\ io_file_percent = mode.io_file_percent
          /\ use_triton = mode.use_triton
    /\ self_hist = EmptyHist
    /\ histogram = EmptyHist
    /\ pt_res_up = <<>>
    /\ pt_var_i = 0
    /\ sel = NoLocals
    /\ reg = NoLocals
    /\ ml = NoLocals
    /\ exception = "none"
    /\ output = NoLocals
    /\ gf_args = NoLocals
    /\ gf_result = NoLocals
    /\ branches_read = <<>>
    /\ fill_log = <<>>
    /\ passes = <<>>
    /\ returned = <<>>
    /\ partial = <<>>
    /\ NoBranchState

NextRun ==
    \/ ProcessBegin
    \/ SelectEvents
    \/ FillRegion4j1b
    \/ FillRegion4j2b
    \/ ProcessReturn
    \/ OnlyDoIO
    \/ NextChunk
    \/ Accumulate

SpecRun == InitRun /\ [][NextRun]_vars

\* ------------------------------------------- get_features, called directly
FeaturesInit ==
    /\ pc = "features"
    /\ gf_args \in FeatureBatches
    /\ gf_result = NoLocals
    /\ events = <<>>
    /\ metadata = NoLocals
    /\ xgboost_model_even = "none"
    /\ xgboost_model_odd = "none"
    /\ self_hist = EmptyHist
    /\ histogram = EmptyHist
    /\ pt_res_up = <<>>
    /\ pt_var_i = 0
    /\ sel = NoLocals
    /\ reg = NoLocals
    /\ ml = NoLocals
    /\ exception = "none"
    /\ output = NoLocals
    /\ disable_processing = FALSE
    /\ io_file_percent = 27
    /\ use_triton = FALSE
    /\ branches_read = <<>>
    /\ fill_log = <<>>
    /\ passes = <<>>
    /\ returned = <<>>
    /\ partial = <<>>
    /\ handed = {}
    /\ NoBranchState

ArgJets(args) == [e \in 1..Len(args) |-> args[e].jets]
ArgElectrons(args) == [e \in 1..Len(args) |-> args[e].electrons]
ArgMuons(args) == [e \in 1..Len(args) |-> args[e].muons]

CallGetFeatures ==
    /\ pc = "features"
    /\ gf_result' = get_features(ArgJets(gf_args), ArgElectrons(gf_args), ArgMuons(gf_args),
                                 permutations_dict)
    /\ pc' = "returned"
    /\ UNCHANGED <<events, metadata, xgboost_model_even, xgboost_model_odd, io_vars, self_hist,
                   histogram, pt_res_up, pt_var_i, sel, reg, ml, exception, output, gf_args,
                   attrs, branches_read, fill_log, passes, returned, runner>>

NextFeatures == CallGetFeatures

SpecFeatures == FeaturesInit /\ [][NextFeatures]_vars

\* ======================================================= GetIOBranches.main
\* the most branches a ratio file holds
MaxBranches == 4

agc_original_branches ==
    <<"Jet_pt", "Jet_eta", "Jet_phi", "Jet_btagCSVV2", "Jet_mass", "Muon_pt", "Electron_pt">>

desired_percents == <<15, 25, 50>>

\* a ratio r of the file is held as the integer r * RatioDenominator
RatioDenominator == 100

\* the branch names of the ratio files considered, in file order
BranchNames == <<"Jet_pt", "nJet", "Muon_pt", "Jet_qgl", "MET_pt", "Electron_pt">>

\* the ratios a branch of these files can have
Ratios == {5, 10, 25, 40}

\* the contents of nanoaod_branch_ratios.json: json.load keeps the file order
RatioFiles ==
    UNION {{[i \in 1..n |-> [key |-> BranchNames[i], value |-> r[i]]] : r \in [1..n -> Ratios]} :
              n \in 1..MinOf({MaxBranches, Len(BranchNames)})}

\* io_branch_dict[key] = value
Store(dict, key, value) ==
    [k \in (DOMAIN dict) \cup {key} |-> IF k = key THEN value ELSE dict[k]]

\* the sum of the ratios of the original AGC branches, as the percentage
\* np.round(100 * current_sum, 1)
OriginalPercentage(ratios) ==
    (100 * SumSeq([i \in 1..Len(ratios) |->
                      IF ratios[i].key \in Range(agc_original_branches)
                      THEN ratios[i].value ELSE 0])) \div RatioDenominator

\* the results np.argsort can give: the orders in which the ratios ascend
\* (the default sort is not stable, equal ratios come in either order)
Sortinds(ratios) ==
    {sortind \in Permutations(1..Len(ratios)) :
        \A i, j \in 1..Len(ratios) :
            i < j => ratios[sortind[i]].value <= ratios[sortind[j]].value}

\* the loop over enumerate(keys) from position i on: append, add, and break
\* once 100 * current_sum >= percent; without a break it ends with all keys
RECURSIVE BranchLoop(_, _, _, _, _, _)
BranchLoop(ks, vs, percent, i, branch_names, current_sum) ==
    IF i > Len(ks)
    THEN branch_names
    ELSE LET names == Append(branch_names, ks[i])
             sum == current_sum + vs[i]
         IN  IF 100 * sum >= percent * RatioDenominator
             THEN names
             ELSE BranchLoop(ks, vs, percent, i + 1, names, sum)

\* branch_names of one percent
BranchNamesFor(ks, vs, percent) == BranchLoop(ks, vs, percent, 1, <<>>, 0)

InitBranches ==
    /\ pc = "main"
    /\ branch_ratios \in RatioFiles
    /\ keys = <<>>
    /\ values = <<>>
    /\ io_branch_dict = <<>>
    /\ percent_i = 0
    /\ config = <<>>
    /\ events = <<>>
    /\ metadata = NoLocals
    /\ xgboost_model_even = "none"
    /\ xgboost_model_odd = "none"
    /\ self_hist = EmptyHist
    /\ histogram = EmptyHist
    /\ pt_res_up = <<>>
    /\ pt_var_i = 0
    /\ sel = NoLocals
    /\ reg = NoLocals
    /\ ml = NoLocals
    /\ exception = "none"
    /\ output = NoLocals
    /\ gf_args = NoLocals
    /\ gf_result = NoLocals
    /\ disable_processing = FALSE
    /\ io_file_percent = 27
    /\ use_triton = FALSE
    /\ branches_read = <<>>
    /\ fill_log = <<>>
    /\ passes = <<>>
    /\ returned = <<>>
    /\ partial = <<>>
    /\ handed = {}

\* what main leaves alone: everything of the processor and the runner
pipeline_vars ==
    <<events, metadata, xgboost_model_even, xgboost_model_odd, self_hist, histogram,
      pt_res_up, pt_var_i, sel, reg, ml, exception, output, gf_args, gf_result, attrs,
      branches_read, fill_log, passes, returned, runner>>

\* the percentage associated with the original AGC branches
OriginalBranches ==
    /\ pc = "main"
    /\ io_branch_dict' = Store(<<>>, OriginalPercentage(branch_ratios), agc_original_branches)
    /\ pc' = "sort"
    /\ UNCHANGED <<branch_ratios, keys, values, percent_i, config, pipeline_vars>>

\* sortind, keys and values
SortBranches ==
    /\ pc = "sort"
    /\ \E sortind \in Sortinds(branch_ratios) :
          /\ keys' = [i \in 1..Len(branch_ratios) |-> branch_ratios[sortind[i]].key]
          /\ values' = [i \in 1..Len(branch_ratios) |-> branch_ratios[sortind[i]].value]
    /\ percent_i' = 1
    /\ pc' = "percent"
    /\ UNCHANGED <<branch_ratios, io_branch_dict, config, pipeline_vars>>

\* one turn of the loop over desired_percents
SelectBranches ==
    /\ pc = "percent"
    /\ LET percent == desired_percents[percent_i]
       IN  io_branch_dict' = Store(io_branch_dict, percent, BranchNamesFor(keys, values, percent))
    /\ percent_i' = percent_i + 1
    /\ pc' = IF percent_i = Len(desired_percents) THEN "write" ELSE "percent"
    /\ UNCHANGED <<branch_ratios, keys, values, config, pipeline_vars>>

\* config["benchmarking"]["IO_BRANCHES"] = io_branch_dict, and the dump
WriteConfig ==
    /\ pc = "write"
    /\ config' = [benchmarking |-> [IO_BRANCHES |-> io_branch_dict]]
    /\ pc' = "done"
    /\ UNCHANGED <<branch_ratios, keys, values, io_branch_dict, percent_i, pipeline_vars>>

NextBranches ==
    \/ OriginalBranches
    \/ SortBranches
    \/ SelectBranches
    \/ WriteConfig

SpecBranches == InitBranches /\ [][NextBranches]_vars

\* ============================================================== properties
\* ------------------------------------ the selection, stated on the raw chunk
\* the locals of the event selection are those of a completed pass
SelectionDone ==
    \/ pc \in {"4j1b", "4j2b", "return", "done", "raised"}
    \/ pc = "select" /\ pt_var_i > 1

\* the factor of jet j of event e of the chunk in the pass sel.pt_var
FactorOf(e, j) ==
    IF sel.pt_var = "pt_nominal" THEN 100
    ELSE IF sel.pt_var = "pt_scale_up" THEN 103
    ELSE pt_res_up[e][j]

HighPtLeptons(e) ==
    Cardinality({i \in 1..Len(events[e].Electron) : events[e].Electron[i].pt > 25})
    + Cardinality({i \in 1..Len(events[e].Muon) : events[e].Muon[i].pt > 25})

PassingJets(e) ==
    {j \in 1..Len(events[e].Jet) : events[e].Jet[j].pt * FactorOf(e, j) > 2500}

TaggedJets(e) == {j \in PassingJets(e) : events[e].Jet[j].btagCSVV2 >= 5}

Required(e) ==
    /\ HighPtLeptons(e) = 1
    /\ Cardinality(PassingJets(e)) >= 4
    /\ TaggedJets(e) # {}

\* 1-based position of event e among the events of 1..e satisfying P
PositionAmong(P(_), e) == Cardinality({k \in 1..e : P(k)})

Selected(e) == sel.event_filters[e]

\* event e of the chunk is in the region, by the masks the code computes
InRegion(region, e) ==
    /\ Selected(e)
    /\ RegionFilter(region, sel.selected_jets)[PositionAmong(Selected, e)]

\* C1: in every pass of the pt_var loop, an event of the chunk passes the event
\* selection exactly when it has one lepton (electron or muon) of pt > 25, at
\* least four jets with pt * factor > 25, and one of those jets with b-tag >= 0.5
C1_EventSelection ==
    SelectionDone =>
        /\ Len(sel.event_filters) = Len(events)
        /\ \A e \in 1..Len(events) : sel.event_filters[e] <=> Required(e)

\* a pass with per-jet resolution factors in which one event passes and another
\* fails only through its factors: it has one lepton, and four jets of pt > 25
\* of which one is tagged
C1_Witness ==
    /\ pc = "4j1b"
    /\ sel.pt_var = "pt_res_up"
    /\ \E e \in 1..Len(events) : sel.event_filters[e]
    /\ \E e \in 1..Len(events) :
          LET high == {j \in 1..Len(events[e].Jet) : events[e].Jet[j].pt > 25}
          IN /\ ~sel.event_filters[e]
             /\ HighPtLeptons(e) = 1
             /\ Cardinality(high) >= 4
             /\ \E j \in high : events[e].Jet[j].btagCSVV2 >= 5

\* C2: the masks of "4j1b" and "4j2b" are never both true for an event, they
\* have one entry per selected event, and an event in either region satisfies
\* the requirements of the selection (one lepton, a b-tagged jet, four jets)
C2_RegionsDisjointWithinSelection ==
    SelectionDone =>
        /\ \A r \in {"4j1b", "4j2b"} :
              Len(RegionFilter(r, sel.selected_jets))
                  = Cardinality({e \in 1..Len(events) : Required(e)})
        /\ \A e \in 1..Len(events) :
              /\ ~(InRegion("4j1b", e) /\ InRegion("4j2b", e))
              /\ (InRegion("4j1b", e) \/ InRegion("4j2b", e)) => Required(e)

\* a chunk with an event in each region and an event kept out of both for its
\* leptons or its lack of a tagged jet
C2_Witness ==
    /\ pc = "4j2b"
    /\ \E e \in 1..Len(events) : InRegion("4j1b", e)
    /\ \E e \in 1..Len(events) : InRegion("4j2b", e)
    /\ \E e \in 1..Len(events) :
          /\ HighPtLeptons(e) # 1 \/ TaggedJets(e) = {}
          /\ ~InRegion("4j1b", e) /\ ~InRegion("4j2b", e)

\* C3, as stated: a selected event with two or more selected jets of b-tag >= 0.5
\* is in "4j2b", and every selected event is in one of the two regions.  The
\* code counts the jets of "4j2b" with b-tag > 0.5, so this does not hold.
C3_TwoTagsRoutedTo4j2b ==
    SelectionDone =>
        \A e \in 1..Len(events) :
            /\ (Required(e) /\ Cardinality(TaggedJets(e)) >= 2) => InRegion("4j2b", e)
            /\ Required(e) => (InRegion("4j1b", e) \/ InRegion("4j2b", e))

\* the scalar sum of pt * factor over the jets of event e that pass the jet cut
ExpectedHT(e) ==
    Lin(SumSeq([j \in 1..Len(events[e].Jet) |->
                   IF j \in PassingJets(e) THEN events[e].Jet[j].pt * FactorOf(e, j) ELSE 0]))

OneTag(e) == Required(e) /\ Cardinality(TaggedJets(e)) = 1

\* C4: a selected event with exactly one selected jet of b-tag >= 0.5 is in
\* "4j1b", where its observable and its ML observable are both the sum over
\* its selected jets of pt times the factor of the current pass
C4_OneTagObservable ==
    (pc = "4j2b") =>
        /\ reg.region = "4j1b"
        /\ Len(reg.observable) = Cardinality({e \in 1..Len(events) : OneTag(e)})
        /\ Len(reg.ML_observable) = Len(reg.observable)
        /\ \A e \in 1..Len(events) :
              OneTag(e) =>
                 /\ reg.region_filter[PositionAmong(Required, e)]
                 /\ reg.observable[PositionAmong(OneTag, e)] = ExpectedHT(e)
                 /\ reg.ML_observable[PositionAmong(OneTag, e)] = ExpectedHT(e)

\* a pass with per-jet resolution factors and a one-tag event whose sum differs
\* from the unscaled sum of its jets' pt
C4_Witness ==
    /\ pc = "4j2b"
    /\ sel.pt_var = "pt_res_up"
    /\ \E e \in 1..Len(events) :
          /\ OneTag(e)
          /\ reg.observable[PositionAmong(OneTag, e)].num
                # 100 * SumSeq([j \in 1..Len(events[e].Jet) |-> events[e].Jet[j].pt])

\* ------------------------------------------------- the chosen permutation
\* the locals of the inference are those of a completed pass of region "4j2b"
InferenceDone ==
    \/ pc \in {"return", "done"}
    \/ pc = "select" /\ pt_var_i > 1

\* index of the row before the first row of event e
RowOffset(perm_counts, e) == SumSeq(SubSeq(perm_counts, 1, e - 1))

\* C10: for every event of region "4j2b" the chosen permutation holds the
\* greatest score among the event's own permutations and is the first to do
\* so, and the event's ML observable is column 10 of that permutation's row
C10_FirstArgMax ==
    InferenceDone =>
        /\ reg.region = "4j2b"
        /\ Len(ml.which_combination) = Len(reg.observable)
        /\ Len(reg.ML_observable) = Len(reg.observable)
        /\ \A e \in 1..Len(reg.observable) :
              LET off == RowOffset(ml.perm_counts, e)
                  w == ml.which_combination[e]
              IN /\ w \in 0..(ml.perm_counts[e] - 1)
                 /\ \A p \in 1..ml.perm_counts[e] : ml.results[off + p] <= ml.results[off + w + 1]
                 /\ \A p \in 1..w : ml.results[off + p] < ml.results[off + w + 1]
                 /\ reg.ML_observable[e] = ml.features[off + w + 1][11]

\* an event whose greatest score is held by several permutations, the first of
\* them not being the event's first permutation, and an event where all tie
C10_Witness ==
    /\ InferenceDone
    /\ \E e \in 1..Len(reg.observable) :
          LET off == RowOffset(ml.perm_counts, e)
              w == ml.which_combination[e]
          IN /\ w > 0
             /\ \E p \in (w + 2)..ml.perm_counts[e] : ml.results[off + p] = ml.results[off + w + 1]
    /\ \E e \in 1..Len(reg.observable) :
          LET off == RowOffset(ml.perm_counts, e)
          IN /\ ml.which_combination[e] = 0
             /\ \A p \in 1..ml.perm_counts[e] : ml.results[off + p] = ml.results[off + 1]

\* ------------------------------------------- get_features, called directly
Returned == pc = "returned" /\ gf_result.raised = "none"

\* the lepton, the jets and the permutation list of event e of the batch
BatchLepton(e) == (gf_args[e].electrons \o gf_args[e].muons)[1]
BatchJets(e) == gf_args[e].jets
BatchTable(e) ==
    permutations_dict[IF Len(BatchJets(e)) > MAX_N_JETS THEN MAX_N_JETS ELSE Len(BatchJets(e))]

\* the rows of one event: one per tuple of the table, in the table's order,
\* from the given lepton and jets
ExpectedRows(lep, jets_e, table) ==
    [p \in 1..Len(table) |->
        [c \in 1..28 |-> Float32(c - 1, FeatureValue(c - 1, lep, jets_e, table[p]))]]

EnoughJets == \A e \in 1..Len(gf_args) : Len(BatchJets(e)) >= 4

\* C5: get_features returns for every batch of events with four jets or more;
\* what it returns is a matrix of 28 columns with as many rows as the sum of
\* the permutation counts, and one permutation count per event of the batch
C5_FeatureShape ==
    (pc = "returned") =>
        /\ EnoughJets => gf_result.raised = "none"
        /\ gf_result.raised = "none" =>
              /\ Len(gf_result.perm_counts) = Len(gf_args)
              /\ Len(gf_result.features) = SumSeq(gf_result.perm_counts)
              /\ \A r \in 1..Len(gf_result.features) : Len(gf_result.features[r]) = 28

\* a batch of two events with different permutation counts has returned
C5_Witness ==
    /\ Returned
    /\ Len(gf_args) = 2
    /\ gf_result.perm_counts[1] # gf_result.perm_counts[2]
    /\ Len(gf_result.features) = gf_result.perm_counts[1] + gf_result.perm_counts[2]

\* C6: the row of permutation p of event e is at index
\* (sum of the counts of the events before e) + p, and it is the row computed
\* from the lepton of event e and the jets of event e at the indices of the
\* p-th tuple of the event's permutation list; unflattening by the permutation
\* counts gives back the rows of each event
C6_RowOrder ==
    Returned =>
        \A e \in 1..Len(gf_args) :
            LET rows == ExpectedRows(BatchLepton(e), BatchJets(e), BatchTable(e))
                off == RowOffset(gf_result.perm_counts, e)
            IN /\ gf_result.perm_counts[e] = Len(rows)
               /\ \A p \in 1..Len(rows) : gf_result.features[off + p] = rows[p]
               /\ Unflatten(gf_result.features, gf_result.perm_counts)[e] = rows

\* a batch of two events with different leptons, different jets and different
\* numbers of permutations has returned
C6_Witness ==
    /\ Returned
    /\ Len(gf_args) = 2
    /\ BatchLepton(1) # BatchLepton(2)
    /\ Len(BatchJets(1)) = 5
    /\ Len(BatchJets(2)) = 4
    /\ gf_result.features[120 + 1] # gf_result.features[1]

\* C7: for n from 4 to MAX_N_JETS every tuple of the table's entry for n holds
\* four pairwise distinct indices of 0..n-1, and every index of the permutation
\* list get_features gives an event is an index into that event's jets
C7_PermutationIndices ==
    /\ \A n \in 4..MAX_N_JETS :
          /\ n \in DOMAIN permutations_dict
          /\ \A i \in 1..Len(permutations_dict[n]) :
                LET t == permutations_dict[n][i]
                IN /\ Len(t) = 4
                   /\ \A a \in 1..4 : t[a] \in 0..(n - 1)
                   /\ \A a, b \in 1..4 : a # b => t[a] # t[b]
    /\ (pc \in {"features", "returned"}) =>
          \A e \in 1..Len(gf_args) :
              LET n == JetCounts(ArgJets(gf_args), permutations_dict)[e]
              IN n \in DOMAIN permutations_dict =>
                    \A i \in 1..Len(permutations_dict[n]) :
                        \A a \in 1..4 : permutations_dict[n][i][a] \in 0..(Len(BatchJets(e)) - 1)

\* get_features has returned for a batch of an event with four jets and an
\* event with more jets than MAX_N_JETS
C7_Witness ==
    /\ Returned
    /\ \E e \in 1..Len(gf_args) : Len(BatchJets(e)) = 4 /\ gf_result.perm_counts[e] = 24
    /\ \E e \in 1..Len(gf_args) : Len(BatchJets(e)) > MAX_N_JETS /\ gf_result.perm_counts[e] = 360

\* C8: an event with more jets than the largest key N of the table does not
\* make get_features fail; it gets the permutation list of N, so that its rows
\* are those of its first N jets and its count that of an event of N jets
C8_HighMultiplicity ==
    LET N == MaxOf(DOMAIN permutations_dict)
    IN (pc = "returned") =>
          /\ EnoughJets => gf_result.raised = "none"
          /\ gf_result.raised = "none" =>
                \A e \in 1..Len(gf_args) :
                    Len(BatchJets(e)) > N =>
                       /\ gf_result.perm_counts[e] = Len(permutations_dict[N])
                       /\ SubSeq(gf_result.features,
                                 RowOffset(gf_result.perm_counts, e) + 1,
                                 RowOffset(gf_result.perm_counts, e) + gf_result.perm_counts[e])
                            = ExpectedRows(BatchLepton(e), SubSeq(BatchJets(e), 1, N),
                                           permutations_dict[N])

\* get_features has returned for a batch of an event of seven jets, after an
\* event of six jets with the same number of rows
C8_Witness ==
    /\ Returned
    /\ Len(gf_args) = 2
    /\ Len(BatchJets(1)) = MAX_N_JETS
    /\ Len(BatchJets(2)) = MAX_N_JETS + 1
    /\ gf_result.perm_counts = <<360, 360>>
    /\ Len(gf_result.features) = 720

\* C9, as stated: with an event of fewer than four jets in the batch,
\* get_features returns, that event's permutation count is 0 and it has no row,
\* and the rows of the other events are theirs.  The table has no entry below
\* four jets, so the lookup of that event's permutation list fails instead.
C9_ZeroPermutations ==
    (pc = "returned" /\ ~EnoughJets) =>
        /\ gf_result.raised = "none"
        /\ Len(gf_result.perm_counts) = Len(gf_args)
        /\ \A e \in 1..Len(gf_args) :
              IF Len(BatchJets(e)) < 4
              THEN gf_result.perm_counts[e] = 0
              ELSE /\ gf_result.perm_counts[e] = Len(BatchTable(e))
                   /\ SubSeq(gf_result.features,
                             RowOffset(gf_result.perm_counts, e) + 1,
                             RowOffset(gf_result.perm_counts, e) + gf_result.perm_counts[e])
                        = ExpectedRows(BatchLepton(e), BatchJets(e), BatchTable(e))

\* ------------------------------------------------------ the histogram fills
\* the variation labels of the fills logged for a region, in order
LoggedLabels(region) ==
    LET of_region == SelectSeq(fill_log, LAMBDA f : f.region = region)
    IN [i \in 1..Len(of_region) |-> of_region[i].variation]

NoRepeat(labels) == \A i, j \in 1..Len(labels) : i # j => labels[i] # labels[j]

\* the labels of a chunk of variation "nominal"
NominalLabels(process) ==
    {"nominal", "pt_scale_up", "pt_res_up",
     "btag_var_0_up", "btag_var_0_down", "btag_var_1_up", "btag_var_1_down",
     "btag_var_2_up", "btag_var_2_down", "btag_var_3_up", "btag_var_3_down"}
    \cup (IF process = "wjets" THEN {"scale_var_up", "scale_var_down"} ELSE {})

CallCompleted == pc \in {"return", "done"} /\ ~disable_processing

CallStarted == pc \in {"select", "4j1b", "4j2b", "return", "done", "raised"}

RECURSIVE Increasing(_)
Increasing(S) ==
    IF S = {} THEN <<>>
    ELSE LET least == CHOOSE x \in S : \A y \in S : x <= y
         IN <<least>> \o Increasing(S \ {least})

\* the outputs numbered s[1], s[2], ... added from left to right
RECURSIVE SumInOrder(_)
SumInOrder(s) ==
    IF Len(s) = 1 THEN returned[s[1]]
    ELSE Merge(SumInOrder(SubSeq(s, 1, Len(s) - 1)), returned[s[Len(s)]])

\* the sum of the same outputs taken in the order process returned them
InReturnOrder(part) == SumInOrder(Increasing(Range(part.of)))

SameCategories(a, b) ==
    /\ Range(a.process) = Range(b.process)
    /\ Range(a.variation) = Range(b.variation)

\* doubles x and y differ by at most k units in the last place
Within(x, y, k) ==
    \/ x = y
    \/ /\ Abs(x.e - y.e) <= 1
       /\ LET low == IF x.e <= y.e THEN x.e ELSE y.e
          IN Abs(x.m * Pow2(x.e - low) - y.m * Pow2(y.e - low)) <= k

RECURSIVE ReplayFills(_, _)
ReplayFills(log, n) ==
    IF n = 0 THEN EmptyHist
    ELSE LET before == ReplayFills(log, n - 1)
         IN IF before.bins = before.bins
            THEN Fill(before, log[n].observable, log[n].ml_observable, log[n].region,
                      log[n].process, log[n].variation, log[n].weight)
            ELSE before

\* C14: process is stateless across chunks: after any sequence of calls on one
\* processor self.hist is still the empty histogram and the models are the
\* ones it was constructed with; the histogram a call fills and returns holds
\* exactly the entries of that call's own fills, whatever was processed before
C14_StatelessAcrossChunks ==
    /\ self_hist = EmptyHist
    /\ xgboost_model_even = "bdt_btag" /\ xgboost_model_odd = "bdt_flat"
    /\ histogram = ReplayFills(fill_log, Len(fill_log))
    /\ \A i \in 1..Len(fill_log) : fill_log[i].process = metadata.process
    /\ (pc = "done" /\ ~disable_processing) =>
          /\ output.hist = histogram
          /\ returned[Len(returned)] = histogram
          /\ Range(histogram.process) \subseteq {metadata.process}

\* a third call has returned, for a sample other than that of the first call,
\* and both outputs have entries
C14_Witness ==
    /\ pc = "done"
    /\ Len(returned) = 3
    /\ self_hist = EmptyHist
    /\ returned[1].process # <<>>
    /\ output.hist.process # <<>>
    /\ returned[1].process # output.hist.process

\* ------------------------------------------------------ processing disabled
\* the branches of a supported tier: those of the tier and of every lower one
TierBranches(percent) ==
    LET tiers == <<Branches_2_7, Branches_4, Branches_15, Branches_25, Branches_50>>
        rank == CASE percent = 27 -> 1 [] percent = 40 -> 2 [] percent = 150 -> 3
                  [] percent = 250 -> 4 [] percent = 500 -> 5
    IN Flatten(SubSeq(tiers, 1, rank))

\* C15: with processing disabled, a call with an I/O percentage other than
\* 2.7, 4, 15, 25, 50 raises NotImplementedError before any branch is read,
\* returns nothing and leaves the histogram untouched; a call with a supported
\* percentage reads the branches of that tier and returns {"hist": {}}
C15_DisabledProcessing ==
    disable_processing =>
        /\ pc \in {"call", "done", "raised"}
        /\ histogram = EmptyHist /\ self_hist = EmptyHist
        /\ fill_log = <<>> /\ returned = <<>>
        /\ pc = "call" => branches_read = <<>> /\ output = NoLocals
        /\ pc = "raised" =>
              /\ io_file_percent \notin {27, 40, 150, 250, 500}
              /\ exception = "NotImplementedError"
              /\ branches_read = <<>>
              /\ output = NoLocals
        /\ pc = "done" =>
              /\ io_file_percent \in {27, 40, 150, 250, 500}
              /\ exception = "none"
              /\ branches_read = TierBranches(io_file_percent)
              /\ Len(branches_read) \in {7, 17, 40, 48, 95}
              /\ output = [hist |-> <<>>]

\* a call with 10%, for which only_do_IO had collected two tiers of branches,
\* has raised
C15_Witness ==
    /\ disable_processing
    /\ io_file_percent = 100
    /\ pc = "raised"
    /\ Len(BranchesToRead(io_file_percent)) = 17

\* ------------------------------------------------------------------ triton
\* C16: with use_triton set, a call of process completes as it does with the
\* local models: it ends by returning its output, with no exception
C16_TritonCompletes ==
    (use_triton /\ pc \in {"done", "raised"}) => (pc = "done" /\ exception = "none")

\* ------------------------------------------------ the angular feature columns
\* the two objects whose separation is held by columns k (delta R) and k + 4
\* (delta phi), k in 0..3, for one lepton, one event's jets and one tuple
PairOf(k, lep, jets_e, perm) ==
    CASE k = 0 -> <<lep, jets_e[perm[4] + 1]>>
      [] k = 1 -> <<jets_e[perm[1] + 1], jets_e[perm[2] + 1]>>
      [] k = 2 -> <<jets_e[perm[1] + 1], jets_e[perm[3] + 1]>>
      [] k = 3 -> <<jets_e[perm[2] + 1], jets_e[perm[3] + 1]>>

\* C17: columns 4-7 of every feature row are the plain absolute differences
\* |phi_a - phi_b| of the two objects, with no wrap-around, and columns 0-3 are
\* sqrt(delta eta^2 + delta phi^2) with the same unwrapped difference; every
\* value is >= 0 (phi in units of pi: a difference may exceed 1)
C17_UnwrappedDeltaPhi ==
    Returned =>
        \A e \in 1..Len(gf_args) :
            \A p \in 1..gf_result.perm_counts[e] :
                LET row == gf_result.features[RowOffset(gf_result.perm_counts, e) + p]
                IN \A k \in 0..3 :
                      LET pair == PairOf(k, BatchLepton(e), BatchJets(e), BatchTable(e)[p])
                          dphi == pair[1].phi - pair[2].phi
                          deta == pair[1].eta - pair[2].eta
                      IN /\ row[k + 5] = (IF dphi < 0 THEN 0 - dphi ELSE dphi)
                         /\ row[k + 5] >= 0
                         /\ row[k + 1].root
                         /\ row[k + 1].num = deta * deta + row[k + 5] * row[k + 5]
                         /\ row[k + 1].num >= 0

\* a returned row holds a delta phi of 2 pi, and the delta R built from it
C17_Witness ==
    /\ Returned
    /\ \E r \in 1..Len(gf_result.features) :
          /\ gf_result.features[r][6] = 2
          /\ gf_result.features[r][2] = Root(4)

\* --------------------------------------------- the pt variation in "4j2b"
\* position of event e of the chunk in region "4j2b" of a completed pass, 0 if
\* the event is not in the region
PassIndex(pass, e) ==
    IF ~pass.event_filters[e] THEN 0
    ELSE LET i == CountTrue(SubSeq(pass.event_filters, 1, e))
         IN IF ~pass.reg.region_filter[i] THEN 0
            ELSE CountTrue(SubSeq(pass.reg.region_filter, 1, i))

PassRows(pass, e) == Unflatten(pass.ml.features, pass.ml.perm_counts)[PassIndex(pass, e)]

\* C18: in region "4j2b" the pt variation changes which jets and events are
\* selected, not the momenta used: an event that is in the region with the
\* same selected jets in two passes of the pt_var loop (pt_nominal and
\* pt_scale_up among them) has the same trijet mass and the same feature rows
\* in both, and the same ML observable when the same permutation is chosen
C18_PtVariationNotPropagated ==
    \A a, b \in 1..Len(passes) :
        \A e \in 1..Len(events) :
            (/\ a < b
             /\ PassIndex(passes[a], e) > 0 /\ PassIndex(passes[b], e) > 0
             /\ passes[a].jet_filter[e] = passes[b].jet_filter[e])
            => LET ia == PassIndex(passes[a], e)
                   ib == PassIndex(passes[b], e)
               IN /\ passes[a].reg.observable[ia] = passes[b].reg.observable[ib]
                  /\ passes[a].reg.observable[ia] =
                        TrijetMass(Mask(events[e].Jet, passes[a].jet_filter[e]))
                  /\ PassRows(passes[a], e) = PassRows(passes[b], e)
                  /\ passes[a].ml.which_combination[ia] = passes[b].ml.which_combination[ib]
                        => passes[a].reg.ML_observable[ia] = passes[b].reg.ML_observable[ib]

\* the passes pt_nominal and pt_scale_up are done, with an event of region
\* "4j2b" whose jets are the same in both
C18_Witness ==
    /\ Len(passes) >= 2
    /\ passes[1].pt_var = "pt_nominal"
    /\ passes[2].pt_var = "pt_scale_up"
    /\ \E e \in 1..Len(events) :
          /\ PassIndex(passes[1], e) > 0 /\ PassIndex(passes[2], e) > 0
          /\ passes[1].jet_filter[e] = passes[2].jet_filter[e]
          /\ Len(PassRows(passes[2], e)) >= 24

\* ------------------------------------------------- the scores, local models
\* the events of the chunk that are in region "4j2b", in order
RegionEvents ==
    SelectSeq([e \in 1..Len(events) |-> e], LAMBDA e : InRegion("4j2b", e))

RegionEventEven(i) == events[RegionEvents[i]].event % 2 = 0

\* the feature rows of the region's events of one parity, in order
ParityRows(even) ==
    Flatten([i \in 1..Len(RegionEvents) |->
                IF RegionEventEven(i) = even
                THEN SubSeq(ml.features, RowOffset(ml.perm_counts, i) + 1,
                            RowOffset(ml.perm_counts, i) + ml.perm_counts[i])
                ELSE <<>>])

\* number of rows of the events before event i that have the parity of event i
ParityOffset(i) ==
    SumSeq([k \in 1..(i - 1) |->
               IF RegionEventEven(k) = RegionEventEven(i) THEN ml.perm_counts[k] ELSE 0])

\* C19: on the local-model path every feature row of region "4j2b" gets its
\* score from exactly one model, chosen by the parity of its event's number:
\* the rows of even-numbered events hold the scores the even model gives the
\* transformed even rows, the rows of odd-numbered events those of the odd
\* model; all rows of one event are scored by one model, and no row keeps the
\* initial 0
C19_ScoresByParity ==
    InferenceDone =>
        LET scores_even == predict_proba(xgboost_model_even, fit_transform(ParityRows(TRUE)))
            scores_odd == predict_proba(xgboost_model_odd, fit_transform(ParityRows(FALSE)))
        IN /\ Len(ml.perm_counts) = Len(RegionEvents)
           /\ Len(ml.results) = Len(ml.features)
           /\ Len(ml.results) = SumSeq(ml.perm_counts)
           /\ \A i \in 1..Len(RegionEvents) :
                 \A p \in 1..ml.perm_counts[i] :
                     LET r == RowOffset(ml.perm_counts, i) + p
                     IN /\ ml.even_perm[r] = RegionEventEven(i)
                        /\ ml.results[r] =
                              (IF RegionEventEven(i) THEN scores_even ELSE scores_odd)
                                  [ParityOffset(i) + p]
                        /\ ml.results[r] # 0

\* a pass is done in which the region holds an odd-numbered event followed by
\* an even-numbered one with another number of permutations, and the two
\* models give scores that differ
C19_Witness ==
    /\ InferenceDone
    /\ Len(RegionEvents) = 2
    /\ ~RegionEventEven(1) /\ RegionEventEven(2)
    /\ ml.perm_counts[1] # ml.perm_counts[2]
    /\ ml.results[1] # ml.results[Len(ml.results)]

\* ------------------------------------------------------ the filled arrays
\* some three jets of the event hold a b-tag above the threshold
HasCandidate(jets) ==
    \E i, j, k \in 1..Len(jets) :
        /\ i < j /\ j < k
        /\ \E t \in {i, j, k} : jets[t].btagCSVV2 > B_TAG_THRESHOLD

\* C20: at every fill the observable, the ML observable and the weights have
\* one entry per event of the region; every event of region "4j2b" has a
\* trijet candidate with a b-tag above the threshold and at least one
\* permutation, so neither of its observables is missing
C20_OneEntryPerEvent ==
    /\ \A i \in 1..Len(fill_log) :
          /\ Len(fill_log[i].ml_observable) = Len(fill_log[i].observable)
          /\ Len(fill_log[i].weight) = Len(fill_log[i].observable)
          /\ \A e \in 1..Len(fill_log[i].observable) :
                /\ fill_log[i].observable[e] # Missing
                /\ fill_log[i].ml_observable[e] # Missing
    /\ (pc = "4j2b" \/ InferenceDone) =>
          /\ fill_log # <<>>
          /\ fill_log[Len(fill_log)].region = reg.region
          /\ fill_log[Len(fill_log)].observable = reg.observable
          /\ Len(reg.observable) = Cardinality({e \in 1..Len(events) : InRegion(reg.region, e)})
    /\ InferenceDone =>
          /\ Len(ml.perm_counts) = Len(reg.observable)
          /\ \A e \in 1..Len(reg.observable) :
                /\ HasCandidate(reg.selected_jets_region[e])
                /\ ml.perm_counts[e] >= 1
                /\ reg.observable[e].num > 0

\* both regions have been filled in a pass in which each holds an event
C20_Witness ==
    /\ InferenceDone
    /\ Len(reg.observable) >= 2
    /\ \E i \in 1..Len(fill_log) :
          /\ fill_log[i].region = "4j1b"
          /\ Len(fill_log[i].weight) >= 1
          /\ fill_log[i].weight[1] # 10000 * XsecWeight(metadata)

\* ------------------------- the arguments of get_features, btag_weight_variation
\* the selected events of the current pass that are in the region
RegionMembers(region) ==
    {e \in 1..Len(sel.selected_jets) : RegionFilter(region, sel.selected_jets)[e]}

\* C21: in every pass of the pt_var loop, every event of a region whose jets
\* and leptons process hands to get_features or whose jet pt it hands to
\* btag_weight_variation has exactly one selected lepton and at least four
\* selected jets; so its jet count, clamped to MAX_N_JETS, is a key of the
\* permutation table, jets 0..3 exist, and no call ends in KeyError or
\* IndexError
C21_RegionEventsWellFormed ==
    /\ exception \notin {"KeyError", "IndexError"}
    /\ SelectionDone =>
          \A region \in {"4j1b", "4j2b"} :
              \A e \in RegionMembers(region) :
                  LET njet == Len(sel.selected_jets[e])
                  IN /\ Len(sel.selected_electrons[e]) + Len(sel.selected_muons[e]) = 1
                     /\ njet >= 4
                     /\ (IF njet > MAX_N_JETS THEN MAX_N_JETS ELSE njet)
                           \in DOMAIN permutations_dict
                     /\ \A i \in 0..3 : (i + 1) \in DOMAIN sel.selected_jets[e]
    /\ (pc = "4j2b" \/ InferenceDone) =>
          /\ reg.selected_jets_region
                = [i \in 1..Len(reg.selected_jets_region) |->
                      sel.selected_jets[Increasing(RegionMembers(reg.region))[i]]]
          /\ Len(reg.selected_jets_region) = Cardinality(RegionMembers(reg.region))
          /\ \A e \in 1..Len(reg.selected_jets_region) :
                Len(reg.selected_jets_region[e]) >= 4
    /\ InferenceDone =>
          \A e \in 1..Len(ml.perm_counts) :
              ml.perm_counts[e] >= 24

\* a pass with varied jet pt (pt_scale_up or pt_res_up) is done in which
\* get_features was handed an event of seven jets and one of four
C21_Witness ==
    /\ InferenceDone
    /\ sel.pt_var # "pt_nominal"
    /\ \E e \in 1..Len(reg.selected_jets_region) : Len(reg.selected_jets_region[e]) > MAX_N_JETS
    /\ \E e \in 1..Len(reg.selected_jets_region) : Len(reg.selected_jets_region[e]) = 4

\* ------------------------------------------------------- the ServiceX query
\* C22: in every pass of the pt_var loop (pt_nominal, pt_scale_up, pt_res_up)
\* every event of the chunk that the event selection accepts is also delivered
\* by get_query, so the selection made on the delivered events is the
\* selection made on the chunk
C22_QueryKeepsSelectedEvents ==
    SelectionDone =>
        /\ \A e \in 1..Len(events) : sel.event_filters[e] => QueryAccepts(events[e])
        /\ Range(Mask(events, sel.event_filters)) \subseteq Range(get_query(events))

\* ------------------------------------------- the branch lists of GetIOBranches
\* the percents whose list the loop has stored
StoredPercents == {desired_percents[i] : i \in 1..(percent_i - 1)}

\* 100 * (the sum of the first n sorted ratios) reaches percent
Reaches(n, percent) == 100 * SumSeq(SubSeq(values, 1, n)) >= percent * RatioDenominator

\* a sequence is a prefix of another
IsPrefix(short, long) == Len(short) <= Len(long) /\ short = SubSeq(long, 1, Len(short))

\* the list of a smaller percent is a prefix of the list of a larger one
PrefixesNested ==
    \A p, q \in StoredPercents : p < q => IsPrefix(io_branch_dict[p], io_branch_dict[q])

\* C23: in GetIOBranches.main, for every desired percent p, the list stored under
\* key p is a prefix of the branches sorted by ascending ratio, its cumulative
\* ratio reaches p percent (100 * sum >= p), no shorter prefix reaches p percent,
\* and the list of a smaller percent is a prefix of the list of a larger one.
C23_ShortestReachingPrefix ==
    /\ \A p \in StoredPercents :
          /\ IsPrefix(io_branch_dict[p], keys)
          /\ Reaches(Len(io_branch_dict[p]), p)
          /\ \A n \in 0..(Len(io_branch_dict[p]) - 1) : ~Reaches(n, p)
    /\ PrefixesNested

\* what holds of every file: the list is a prefix of the sorted branches, no
\* proper prefix of it reaches the percent, the lists are nested, and the list
\* reaches the percent exactly when the whole file does
BranchListsOfAnyFile ==
    /\ \A p \in StoredPercents :
          /\ IsPrefix(io_branch_dict[p], keys)
          /\ \A n \in 0..(Len(io_branch_dict[p]) - 1) : ~Reaches(n, p)
          /\ Reaches(Len(io_branch_dict[p]), p) <=> Reaches(Len(keys), p)
          /\ ~Reaches(Len(keys), p) => io_branch_dict[p] = keys
    /\ PrefixesNested
    /\ \A i, j \in 1..Len(values) : i < j => values[i] <= values[j]

\* main has finished on a file whose branches reach every desired percent, and
\* the three lists differ
BranchListsOfReachingFile ==
    /\ pc = "done"
    /\ Reaches(Len(keys), 50)
    /\ Len(io_branch_dict[15]) < Len(io_branch_dict[25])
    /\ Len(io_branch_dict[25]) < Len(io_branch_dict[50])

====
